---- MODULE Spec2Model ----
(***************************************************************************)
(* Model of the Zowie agent SDK request path: the POST "/" handler of      *)
(* Agent.setupRoutes, the per-request Context (event array, value          *)
(* storage), the LLM facade with its Google and OpenAI providers           *)
(* (retryWithBackoff, withTiming) and the HTTP client.                     *)
(*                                                                         *)
(* Abstractions: wall-clock durations (durationInMillis) are left out of   *)
(* the events; Math.random() * 500 is drawn from JitterSamples; values     *)
(* given to storeValue are primitives or undefined.                        *)
(***************************************************************************)
EXTENDS Integers, Sequences, FiniteSets, TLC

\* ---------------------------------------------------------------- bounds
MaxCalls == 2
MaxStores == 2
MaxConcurrent == 2
MaxMessages == 2
MaxCandidates == 3
MaxRequests == 2
MaxRequestCalls == 1

\* ------------------------------------------------------ program constants
maxRetries == 3
baseDelay == 1000
JitterRange == 500

\* Math.random() * JitterRange, sampled at the ends of its range
JitterSamples == {0, JitterRange - 1}

\* ------------------------------------------------------------- JS values
Undef == [defined |-> FALSE]
Def(v) == [defined |-> TRUE, val |-> v]
EmptyObj == [k \in {} |-> Undef]

Keys == {"key", "__proto__"}
Values == {Def("first"), Def("second"), Undef}

\* ------------------------------------------------------ vendor behaviour
ApiStatuses == {400, 404, 429, 500}
ApiError(s) == [name |-> "ApiError", status |-> s, message |-> "api " \o ToString(s)]
NetworkError == [name |-> "Error", status |-> 0, message |-> "fetch failed"]
VendorErrors == {ApiError(s) : s \in ApiStatuses} \cup {NetworkError}
VendorOk(n) == [name |-> "ok", status |-> 200, message |-> "text " \o ToString(n)]

OpenAIOutcomes ==
  VendorErrors \cup {VendorOk(1)}
    \cup {[name |-> "Error", status |-> 0, message |-> "No content received from OpenAI"]}

NoArgs == [fn |-> "none"]
NoRet == [returned |-> FALSE]
NoCall == [kind |-> "none"]
NoResponse == [status |-> 0]

VARIABLES llmConfig, apiKeyUsable, vendorClient, pc, valueStorage, events,
          call, lastCall, completedCalls, storeCount, lastWrite, result,
          response, request, context, handleCalls, responsesSent,
          providerPromise, providersConstructed, clientsCreated, slots,
          args, ret, requests

vars == <<llmConfig, apiKeyUsable, vendorClient, pc, valueStorage, events,
          call, lastCall, completedCalls, storeCount, lastWrite, result,
          response, request, context, handleCalls, responsesSent,
          providerPromise, providersConstructed, clientsCreated, slots,
          args, ret, requests>>

\* the provider resolution of the one LLM facade of the agent
facadeVars == <<providerPromise, providersConstructed, clientsCreated>>

\* the inbound request, its Context and the number of calls of handle:
\* touched by the entry of the POST route only
dispatchVars == <<request, context, handleCalls>>

NoResult == [type |-> "none"]

\* ------------------------------------------------- parseIncomingRequest
\* A payload is summarised by whether its metadata satisfies MetadataSchema
\* and by its messages; of a timestamp only z.string().datetime() is kept.
Msg(author, content, timestampIso) ==
  [author |-> author, content |-> content, timestampIso |-> timestampIso]

PayloadMessages ==
  {<<>>,
   <<Msg("User", "hi", TRUE)>>,
   <<Msg("Agent", "hi", TRUE)>>,
   <<Msg("User", "hi", FALSE)>>}

\* a payload whose metadata is rejected is represented once
Payloads ==
  {p \in [metadataOk : BOOLEAN, messages : PayloadMessages] :
     p.metadataOk \/ p.messages = <<Msg("User", "hi", TRUE)>>}

MessageSchema(m) == m.author \in {"User", "Chatbot"} /\ m.timestampIso


\* fault: messages are not validated
parseIncomingRequest_metadataOnly(p) == p.metadataOk

parseIncomingRequest(p) ==
  /\ p.metadataOk
  /\ \A i \in DOMAIN p.messages : MessageSchema(p.messages[i])

\* what IncomingRequestSchema.parse throws
ZodError == [name |-> "ZodError", message |-> "Invalid input"]

NoRequest == [apiKey |-> Undef, rejected |-> FALSE]
NoContext == [constructed |-> FALSE]


\* fault: an empty conversation is padded with a placeholder message
NewContext_placeholder(messages) ==
  [constructed |-> TRUE,
   messages |-> IF messages = <<>> THEN <<Msg("User", "", TRUE)>> ELSE messages]

\* new Context(request.metadata, request.messages, storeValue, ..., events)
NewContext(messages) == [constructed |-> TRUE, messages |-> messages]

\* ------------------------------------------------- AuthValidator
\* the agent is configured with authConfig {type: "api_key", apiKey: ApiKey}
ApiKey == "secret"
ApiKeyHeaders == {Undef, Def("secret"), Def("guess!")}

AgentAuth == Def([type |-> "api_key", headerName |-> "X-API-Key", apiKey |-> ApiKey])

\* the headers object of a request that carries, or does not carry, the key
ApiKeyRequest(header) ==
  IF header.defined THEN "x-api-key" :> header.val ELSE EmptyObj

\* A credential text is a string; in AccentedKey the last character stands
\* for one character outside ASCII (one UTF-16 unit, two bytes in UTF-8).
AccentedKey == "secre^"

\* Buffer.from(text, "utf8").length
utf8Length(text) == Len(text) + (IF text = AccentedKey THEN 1 ELSE 0)

\* headerName.toLowerCase()
toLowerCase(name) == IF name = "X-API-Key" THEN "x-api-key" ELSE name

\* secureCompare: false on different lengths, otherwise timingSafeEqual of
\* the UTF-8 buffers, which throws a RangeError when their byte lengths differ
secureCompare(a, b) ==
  IF Len(a) # Len(b) THEN "false"
  ELSE IF utf8Length(a) # utf8Length(b) THEN "RangeError"
  ELSE IF a = b THEN "true" ELSE "false"

\* what validateHeaders does: return, throw an AuthError, throw something else
Passes == [threw |-> "none"]
AuthError(status, message) == [threw |-> "AuthError", status |-> status, message |-> message]
Compared(outcome, failure) ==
  IF outcome = "true" THEN Passes
  ELSE IF outcome = "false" THEN failure
  ELSE [threw |-> outcome]

verifyApiKeyFromHeaders(config, headers) ==
  LET name == toLowerCase(config.headerName)
  IN IF name \notin DOMAIN headers \/ headers[name] = ""
       THEN AuthError(401, "Missing " \o config.headerName \o " header")
       ELSE Compared(secureCompare(headers[name], config.apiKey),
                     AuthError(401, "Invalid API key"))

\* An Authorization header is its scheme prefix and the rest; the rest of a
\* Basic header is the base64 text of the credentials.
Base64Encode(parts) == [base64 |-> parts]

\* Buffer.from(encoded, "base64").toString("utf-8"), as the parts of the
\* decoded text that ":" separates
Base64Decode(encoded) == encoded.base64

verifyBasicAuthFromHeaders(config, headers) ==
  IF "authorization" \notin DOMAIN headers \/ headers["authorization"].scheme # "Basic "
    THEN AuthError(401, "Missing or invalid Authorization header")
    ELSE LET decoded == Base64Decode(headers["authorization"].rest)
             format == AuthError(401, "Invalid Basic auth format")
             invalid == AuthError(401, "Invalid credentials")
         IN IF Len(decoded) < 2 THEN format
            ELSE LET u == secureCompare(decoded[1], config.username)
                     w == secureCompare(decoded[2], config.password)
                 IN IF u = "RangeError" THEN format
                    ELSE IF u = "false" THEN invalid
                    ELSE IF w = "RangeError" THEN format
                    ELSE IF w = "false" THEN invalid
                    ELSE Passes

verifyBearerTokenFromHeaders(config, headers) ==
  IF "authorization" \notin DOMAIN headers \/ headers["authorization"].scheme # "Bearer "
    THEN AuthError(401, "Missing or invalid Authorization header")
    ELSE Compared(secureCompare(headers["authorization"].rest, config.token),
                  AuthError(401, "Invalid bearer token"))


\* fault: a missing header is let through
validateHeaders_missingOk(authConfig, headers) ==
  IF ~authConfig.defined THEN Passes
  ELSE IF authConfig.val.type = "api_key"
    THEN IF toLowerCase(authConfig.val.headerName) \notin DOMAIN headers
           THEN Passes
           ELSE verifyApiKeyFromHeaders(authConfig.val, headers)
  ELSE IF authConfig.val.type = "basic"
    THEN verifyBasicAuthFromHeaders(authConfig.val, headers)
  ELSE verifyBearerTokenFromHeaders(authConfig.val, headers)

\* AuthValidator.validateHeaders
validateHeaders(authConfig, headers) ==
  IF ~authConfig.defined THEN Passes
  ELSE IF authConfig.val.type = "api_key"
    THEN verifyApiKeyFromHeaders(authConfig.val, headers)
  ELSE IF authConfig.val.type = "basic"
    THEN verifyBasicAuthFromHeaders(authConfig.val, headers)
  ELSE IF authConfig.val.type = "bearer"
    THEN verifyBearerTokenFromHeaders(authConfig.val, headers)
  ELSE AuthError(500, "Unknown auth type")

\* AuthValidator.middleware: next() is called, or the request is answered
middleware(authConfig, headers) ==
  LET v == validateHeaders(authConfig, headers)
  IN IF v.threw = "none" THEN [next |-> TRUE, status |-> 0]
     ELSE IF v.threw = "AuthError"
       THEN [next |-> FALSE, status |-> v.status, body |-> [error |-> v.message]]
     ELSE [next |-> FALSE, status |-> 500, body |-> [error |-> "Internal server error"]]

\* ---------------------------------------------------------- storeValue
\* valueStorage[key] = value on a plain object literal: an own property is
\* created or overwritten, except for "__proto__", which is the accessor
\* inherited from Object.prototype (a primitive value is ignored by it).
storeValue(vs, key, value) ==
  IF key = "__proto__"
    THEN vs
    ELSE [k \in (DOMAIN vs) \cup {key} |-> IF k = key THEN value ELSE vs[k]]

\* ------------------------------------------------------------- events
Prompt(n) == "prompt " \o ToString(n)

createLLMCallEvent(n, responseText) ==
  [type |-> "llm_call",
   payload |-> [prompt |-> Prompt(n), response |-> responseText, model |-> "model"]]

\* withTiming, success branch: the result text is recorded
withTimingSuccessEvent(n, resultText) == createLLMCallEvent(n, resultText)


\* fault: the error marker is missing
withTimingErrorEvent_noPrefix(n, error) == createLLMCallEvent(n, error.message)

\* withTiming, catch branch: "Error: " + message is recorded
withTimingErrorEvent(n, error) == createLLMCallEvent(n, "Error: " \o error.message)


\* fault: the instanceof test is missing, any value with a status qualifies
isRetryableError_statusOnly(error) == error.status = 429 \/ error.status >= 500

\* fault: every 4xx is taken for transient
isRetryableError_any4xx(error) ==
  /\ error.name = "ApiError"
  /\ error.status >= 400

\* ------------------------------------------------------ retryWithBackoff
isRetryableError(error) ==
  /\ error.name = "ApiError"
  /\ (error.status = 429 \/ error.status >= 500)


\* fault: the budget test is off by one
shouldRetry_offByOne(attempt, error) == attempt <= maxRetries /\ isRetryableError(error)

shouldRetry(attempt, error) == attempt < maxRetries /\ isRetryableError(error)


\* fault: linear instead of exponential growth
backoffDelay_linear(attempt, jitter) == baseDelay * (attempt + 1) + jitter

backoffDelay(attempt, jitter) == baseDelay * 2 ^ attempt + jitter


\* fault: the warning reports the base delay, not the computed one
retryWarning_baseDelay(attempt, delay) ==
  [attempt |-> attempt + 1, of |-> maxRetries + 1, delay |-> baseDelay]

\* the logger.warn of a retry: "attempt (attempt + 1)/(maxRetries + 1) ...
\* Retrying in (delay)ms"
retryWarning(attempt, delay) ==
  [attempt |-> attempt + 1, of |-> maxRetries + 1, delay |-> delay]

\* ---------------------------------------------------------- HTTPClient
HTTPErrors == {[name |-> "TimeoutError", message |-> "The operation timed out"],
               [name |-> "AbortError", message |-> "This operation was aborted"],
               [name |-> "TypeError", message |-> "fetch failed"]}
HTTPStatuses == {200, 500}
RequestBodies == {Undef, Def("{}")}

\* fault: a timeout is recorded like any other transport failure
httpErrorStatus_timeoutZero(error) ==
  IF error.name = "AbortError" THEN 499
  ELSE 0

httpErrorStatus(error) ==
  IF error.name = "TimeoutError" THEN 504
  ELSE IF error.name = "AbortError" THEN 499
  ELSE 0

httpErrorBody(error) ==
  IF error.name = "TimeoutError" THEN "Request timeout"
  ELSE IF error.name = "AbortError" THEN "Request aborted"
  ELSE error.message

apiCallEvent(n, body, status, responseBody) ==
  [type |-> "api_call",
   payload |-> [url |-> "url " \o ToString(n), requestBody |-> body,
                responseStatusCode |-> status, responseBody |-> responseBody]]

\* ------------------------------------------------- response construction
\* JSON.stringify of an object: properties whose value is undefined are left out
StringifyObject(o) == [k \in {x \in DOMAIN o : o[x].defined} |-> o[k].val]

StringifyEvent(e) ==
  IF e.type = "api_call"
    THEN [type |-> e.type,
          payload |-> StringifyObject(
             [url |-> Def(e.payload.url),
              requestBody |-> e.payload.requestBody,
              responseStatusCode |-> Def(e.payload.responseStatusCode),
              responseBody |-> Def(e.payload.responseBody)])]
    ELSE e

StringifyEvents(evs) == [i \in 1..Len(evs) |-> StringifyEvent(evs[i])]


\* fault: the transfer message is not carried over
buildCommand_dropMessage(res) ==
  IF res.type = "continue"
    THEN [type |-> "send_message", payload |-> [message |-> res.message]]
    ELSE [type |-> "go_to_next_block",
          payload |-> [nextBlockReferenceKey |-> Def(res.nextBlock),
                       message |-> Undef]]

\* the command of the ExternalAgentResponse built from the AgentResponse
buildCommand(res) ==
  IF res.type = "continue"
    THEN [type |-> "send_message", payload |-> [message |-> res.message]]
    ELSE [type |-> "go_to_next_block",
          payload |-> [nextBlockReferenceKey |-> Def(res.nextBlock),
                       message |-> res.message]]

valuesToSaveField(vs) == IF Cardinality(DOMAIN vs) > 0 THEN Def(vs) ELSE Undef


\* fault: the events array is attached even when empty
eventsField_always(evs) == Def(evs)

eventsField(evs) == IF Len(evs) > 0 THEN Def(evs) ELSE Undef

buildResponse(res, vs, evs) ==
  [command |-> buildCommand(res),
   valuesToSave |-> valuesToSaveField(vs),
   events |-> eventsField(evs)]

\* res.json(response): the body the orchestrator receives
resJson(r) ==
  StringifyObject(
    [command |-> Def([type |-> r.command.type,
                      payload |-> StringifyObject(r.command.payload)]),
     valuesToSave |-> IF r.valuesToSave.defined
                        THEN Def(StringifyObject(r.valuesToSave.val))
                        ELSE Undef,
     events |-> IF r.events.defined
                  THEN Def(StringifyEvents(r.events.val))
                  ELSE Undef])

\* the catch block of the route: an error named ZodError is answered as an
\* invalid request, any other error as an internal error with its message
catchStatus(error) == IF error.name = "ZodError" THEN 400 ELSE 500

catchBody(error) ==
  IF error.name = "ZodError"
    THEN [error |-> "Bad request", message |-> "Invalid request format"]
    ELSE [error |-> "Internal server error", message |-> error.message]

AgentResponses ==
  {[type |-> "continue", message |-> Def("hello")],
   [type |-> "finish", nextBlock |-> "support", message |-> Def("bye")],
   [type |-> "finish", nextBlock |-> "support", message |-> Undef]}

\* ------------------------------------------------------- the LLM facade
\* callers that use the facade at the same time
CallIds == 1..MaxConcurrent

LLMOps == {"generateContent", "generateStructuredContent"}
LLMCandidateOps ==
  {"generateContentWithCandidates", "generateStructuredContentWithCandidates"}

IdleSlot == [pc |-> "idle"]

\* requests the Express server is handling at the same time; each one has
\* the locals of its own run of the POST handler
RequestIds == 1..MaxRequests

IdleRequest == [pc |-> "idle"]

\* LLM.constructor: without a config providerPromise stays undefined,
\* otherwise it is the promise returned by initializeProvider
NewProviderPromise(config) ==
  IF config = "none" THEN [state |-> "undefined"] ELSE [state |-> "pending"]

\* initializeProvider once the dynamic import has resolved: the promise is
\* fulfilled with a new OpenAIProvider / GoogleProvider
initializeProvider(constructed) == [state |-> "fulfilled", value |-> constructed + 1]


\* fault: an absent promise is not detected
getProvider_noCheck(promise) == [ok |-> TRUE, message |-> ""]

\* LLM.getProvider
getProvider(promise) ==
  IF promise.state = "undefined"
    THEN [ok |-> FALSE, message |-> "LLM provider not configured"]
    ELSE [ok |-> TRUE, message |-> ""]


\* fault: the client is not memoized
getGenAI_noMemo(client, usable) ==
  IF usable
    THEN [ok |-> TRUE, client |-> "ready", created |-> 1]
    ELSE [ok |-> FALSE, client |-> client, created |-> 0]

\* GoogleProvider.getGenAI / OpenAIProvider.getOpenAI: the vendor client is
\* constructed on first use and kept; a throwing constructor leaves it unset
getGenAI(client, usable) ==
  IF client = "unset"
    THEN IF usable
           THEN [ok |-> TRUE, client |-> "ready", created |-> 1]
           ELSE [ok |-> FALSE, client |-> client, created |-> 0]
    ELSE [ok |-> TRUE, client |-> client, created |-> 0]

\* ------------------------------------------------------------------ Init
InitAgent ==
  /\ llmConfig \in {"none", "google", "openai"}
  /\ apiKeyUsable \in (IF llmConfig = "none" THEN {FALSE} ELSE BOOLEAN)
  /\ vendorClient = "unset"
  /\ pc = "idle"
  /\ valueStorage = EmptyObj
  /\ events = <<>>
  /\ call = NoCall
  /\ lastCall = NoCall
  /\ completedCalls = 0
  /\ storeCount = 0
  /\ lastWrite = EmptyObj
  /\ result = NoResult
  /\ response = NoResponse
  /\ request = NoRequest
  /\ context = NoContext
  /\ handleCalls = 0
  /\ responsesSent = 0
  /\ providerPromise = NewProviderPromise(llmConfig)
  /\ providersConstructed = 0
  /\ clientsCreated = 0
  /\ slots = [i \in CallIds |-> IdleSlot]
  /\ requests = [r \in RequestIds |-> IdleRequest]

Init ==
  /\ InitAgent
  /\ args = NoArgs
  /\ ret = NoRet

\* ------------------------------------------------- POST "/" : entry part
\* parse, create valueStorage and events, construct the Context, call handle
PostBegin(header, payload) ==
  /\ pc = "idle"
  /\ middleware(AgentAuth, ApiKeyRequest(header)).next
  /\ request' = [apiKey |-> header, payload |-> payload]
  /\ valueStorage' = EmptyObj
  /\ events' = <<>>
  /\ lastCall' = NoCall
  /\ completedCalls' = 0
  /\ storeCount' = 0
  /\ lastWrite' = EmptyObj
  /\ result' = NoResult
  /\ IF parseIncomingRequest(payload)
       THEN /\ context' = NewContext(payload.messages)
            /\ handleCalls' = 1
            /\ pc' = "handle"
            /\ response' = NoResponse
            /\ responsesSent' = 0
       ELSE /\ context' = NoContext
            /\ handleCalls' = 0
            /\ pc' = "idle"
            /\ response' = [status |-> catchStatus(ZodError),
                            body |-> catchBody(ZodError)]
            /\ responsesSent' = 1
  /\ UNCHANGED <<llmConfig, apiKeyUsable, vendorClient, call, facadeVars,
                 slots, args, ret, requests>>

\* ------------- POST "/" : the authentication middleware ends the request
AuthRejects(header) ==
  /\ pc = "idle"
  /\ ~middleware(AgentAuth, ApiKeyRequest(header)).next
  /\ request' = [apiKey |-> header, rejected |-> TRUE]
  /\ context' = NoContext
  /\ handleCalls' = 0
  /\ valueStorage' = EmptyObj
  /\ events' = <<>>
  /\ lastCall' = NoCall
  /\ completedCalls' = 0
  /\ storeCount' = 0
  /\ lastWrite' = EmptyObj
  /\ result' = NoResult
  /\ response' = [status |-> middleware(AgentAuth, ApiKeyRequest(header)).status,
                  body |-> middleware(AgentAuth, ApiKeyRequest(header)).body]
  /\ responsesSent' = 1
  /\ UNCHANGED <<llmConfig, apiKeyUsable, vendorClient, call, pc, facadeVars,
                 slots, args, ret, requests>>

\* --------------------------------------------- business logic : storeValue
BLStoreValue(key, value) ==
  /\ pc = "handle"
  /\ storeCount < MaxStores
  /\ valueStorage' = storeValue(valueStorage, key, value)
  /\ lastWrite' = [k \in (DOMAIN lastWrite) \cup {key} |->
                     IF k = key THEN value ELSE lastWrite[k]]
  /\ storeCount' = storeCount + 1
  /\ UNCHANGED <<llmConfig, apiKeyUsable, vendorClient, pc, events, call,
                 lastCall, completedCalls, result, response, dispatchVars,
                 responsesSent, facadeVars, slots, args, ret, requests>>

\* a facade call has settled and control is back in business logic
Completed(kind, n, outcome, value, log, warns, slept) ==
  [kind |-> kind, n |-> n, outcome |-> outcome, value |-> value,
   attemptLog |-> log, warnings |-> warns, sleeps |-> slept]

\* ------------------------ context.llm.generateContent : up to first attempt
\* LLM.getProvider, then the provider's getGenAI / getOpenAI, buildSystem-
\* Instruction, prepareHistory and the entry of withTiming / retryWithBackoff
LLMGenerateContent ==
  /\ pc = "handle"
  /\ completedCalls < MaxCalls
  /\ IF llmConfig = "none"
       THEN /\ lastCall' = Completed("llm", completedCalls + 1, "error",
                  [name |-> "Error", status |-> 0,
                   message |-> "LLM provider not configured"], <<>>, <<>>, <<>>)
            /\ completedCalls' = completedCalls + 1
            /\ UNCHANGED <<pc, call, vendorClient>>
       ELSE IF vendorClient = "unset" /\ ~apiKeyUsable
         THEN /\ lastCall' = Completed("llm", completedCalls + 1, "error",
                    [name |-> "Error", status |-> 0,
                     message |-> "Failed to initialize provider"], <<>>, <<>>, <<>>)
              /\ completedCalls' = completedCalls + 1
              /\ UNCHANGED <<pc, call, vendorClient>>
         ELSE /\ vendorClient' = "ready"
              /\ call' = [kind |-> "llm", provider |-> llmConfig,
                          n |-> completedCalls + 1, attempt |-> 0,
                          attemptLog |-> <<>>, warnings |-> <<>>, sleeps |-> <<>>]
              /\ pc' = "llm_inflight"
              /\ UNCHANGED <<lastCall, completedCalls>>
  /\ IF llmConfig = "none"
       THEN UNCHANGED facadeVars
       ELSE /\ providerPromise' = IF providerPromise.state = "pending"
                                    THEN initializeProvider(providersConstructed)
                                    ELSE providerPromise
            /\ providersConstructed' = IF providerPromise.state = "pending"
                                         THEN providersConstructed + 1
                                         ELSE providersConstructed
            /\ clientsCreated' =
                  clientsCreated + getGenAI(vendorClient, apiKeyUsable).created
  /\ UNCHANGED <<llmConfig, apiKeyUsable, valueStorage, events, storeCount,
                 lastWrite, result, response, dispatchVars, responsesSent,
                 slots, args, ret, requests>>

\* ------------------------------- Google: a physical attempt returns a text
GoogleAttemptSucceeds ==
  /\ pc = "llm_inflight"
  /\ call.provider = "google"
  /\ LET ok == VendorOk(call.attempt + 1)
     IN /\ events' = Append(events, withTimingSuccessEvent(call.n, ok.message))
        /\ lastCall' = Completed("llm", call.n, "ok", ok,
                                 Append(call.attemptLog, ok), call.warnings, call.sleeps)
  /\ completedCalls' = completedCalls + 1
  /\ call' = NoCall
  /\ pc' = "handle"
  /\ UNCHANGED <<llmConfig, apiKeyUsable, vendorClient, valueStorage, storeCount,
                 lastWrite, result, response,
                 dispatchVars, responsesSent,
                 facadeVars, slots, args, ret, requests>>

\* ------------- Google: a physical attempt fails, the catch block of the loop
GoogleAttemptFails(error, jitter) ==
  /\ pc = "llm_inflight"
  /\ call.provider = "google"
  /\ IF shouldRetry(call.attempt, error)
       THEN LET delay == backoffDelay(call.attempt, jitter)
            IN /\ call' = [call EXCEPT
                     !.attemptLog = Append(@, error),
                     !.warnings = Append(@, retryWarning(call.attempt, delay)),
                     !.sleeps = Append(@, [attempt |-> call.attempt, delay |-> delay])]
               /\ pc' = "llm_sleep"
               /\ UNCHANGED <<events, lastCall, completedCalls>>
       ELSE /\ events' = Append(events, withTimingErrorEvent(call.n, error))
            /\ lastCall' = Completed("llm", call.n, "error", error,
                                     Append(call.attemptLog, error),
                                     call.warnings, call.sleeps)
            /\ completedCalls' = completedCalls + 1
            /\ call' = NoCall
            /\ pc' = "handle"
  /\ UNCHANGED <<llmConfig, apiKeyUsable, vendorClient, valueStorage, storeCount,
                 lastWrite, result, response,
                 dispatchVars, responsesSent,
                 facadeVars, slots, args, ret, requests>>

\* fault: the loop counter is not advanced after the backoff
BackoffElapsed_sameAttempt ==
  /\ pc = "llm_sleep"
  /\ call' = call
  /\ pc' = "llm_inflight"
  /\ UNCHANGED <<llmConfig, apiKeyUsable, vendorClient, valueStorage, events,
                 lastCall, completedCalls, storeCount, lastWrite, result,
                 response,
                 dispatchVars, responsesSent,
                 facadeVars, slots, args, ret, requests>>

\* ------------------ Google: the setTimeout of the backoff fires; attempt++
BackoffElapsed ==
  /\ pc = "llm_sleep"
  /\ call' = [call EXCEPT !.attempt = @ + 1]
  /\ pc' = "llm_inflight"
  /\ UNCHANGED <<llmConfig, apiKeyUsable, vendorClient, valueStorage, events,
                 lastCall, completedCalls, storeCount, lastWrite, result,
                 response,
                 dispatchVars, responsesSent,
                 facadeVars, slots, args, ret, requests>>

\* ---- OpenAI: chat.completions.create settles (the SDK retries internally)
OpenAISettles(outcome) ==
  /\ pc = "llm_inflight"
  /\ call.provider = "openai"
  /\ events' = Append(events,
        IF outcome.name = "ok"
          THEN withTimingSuccessEvent(call.n, outcome.message)
          ELSE withTimingErrorEvent(call.n, outcome))
  /\ lastCall' = Completed("llm", call.n,
                           IF outcome.name = "ok" THEN "ok" ELSE "error", outcome,
                           Append(call.attemptLog, outcome), <<>>, <<>>)
  /\ completedCalls' = completedCalls + 1
  /\ call' = NoCall
  /\ pc' = "handle"
  /\ UNCHANGED <<llmConfig, apiKeyUsable, vendorClient, valueStorage, storeCount,
                 lastWrite, result, response,
                 dispatchVars, responsesSent,
                 facadeVars, slots, args, ret, requests>>

\* --------------------------- context.http.* : HTTPClient.request up to fetch
HTTPRequest(body) ==
  /\ pc = "handle"
  /\ completedCalls < MaxCalls
  /\ call' = [kind |-> "http", n |-> completedCalls + 1, body |-> body]
  /\ pc' = "http_inflight"
  /\ UNCHANGED <<llmConfig, apiKeyUsable, vendorClient, valueStorage, events,
                 lastCall, completedCalls, storeCount, lastWrite, result,
                 response,
                 dispatchVars, responsesSent,
                 facadeVars, slots, args, ret, requests>>

\* ------------------- HTTPClient.request: fetch resolved with a Response
FetchResolves(status) ==
  /\ pc = "http_inflight"
  /\ events' = Append(events, apiCallEvent(call.n, call.body, status, "body"))
  /\ lastCall' = Completed("http", call.n, "ok",
                           [name |-> "ok", status |-> status, message |-> "body"],
                           <<>>, <<>>, <<>>)
  /\ completedCalls' = completedCalls + 1
  /\ call' = NoCall
  /\ pc' = "handle"
  /\ UNCHANGED <<llmConfig, apiKeyUsable, vendorClient, valueStorage, storeCount,
                 lastWrite, result, response,
                 dispatchVars, responsesSent,
                 facadeVars, slots, args, ret, requests>>

\* ------------------ HTTPClient.request: fetch rejected, the error branch
FetchRejects(error) ==
  /\ pc = "http_inflight"
  /\ events' = Append(events, apiCallEvent(call.n, call.body,
                                          httpErrorStatus(error), httpErrorBody(error)))
  /\ lastCall' = Completed("http", call.n, "error",
                           [name |-> error.name, status |-> httpErrorStatus(error),
                            message |-> error.message],
                           <<>>, <<>>, <<>>)
  /\ completedCalls' = completedCalls + 1
  /\ call' = NoCall
  /\ pc' = "handle"
  /\ UNCHANGED <<llmConfig, apiKeyUsable, vendorClient, valueStorage, storeCount,
                 lastWrite, result, response,
                 dispatchVars, responsesSent,
                 facadeVars, slots, args, ret, requests>>

\* ------------------------------------- business logic: handle() resolves
HandleReturns(res) ==
  /\ pc = "handle"
  /\ result' = res
  /\ pc' = "returned"
  /\ UNCHANGED <<llmConfig, apiKeyUsable, vendorClient, valueStorage, events,
                 call, lastCall, completedCalls, storeCount, lastWrite,
                 response,
                 dispatchVars, responsesSent,
                 facadeVars, slots, args, ret, requests>>

\* -------- business logic: handle() rejects, with its own error or with the
\* error of the facade call that has just failed
\* (a ZodError is what schema.parse of the zod library throws)
ThrowableErrors ==
  {[name |-> "Error", message |-> "business logic failure"],
   [name |-> "ZodError", message |-> "Expected string, received number"]}
    \cup (IF lastCall.kind # "none" /\ lastCall.outcome = "error"
            THEN {[name |-> lastCall.value.name, message |-> lastCall.value.message]}
            ELSE {})

HandleThrows(error) ==
  /\ pc = "handle"
  /\ error \in ThrowableErrors
  /\ result' = [type |-> "error", name |-> error.name, message |-> error.message]
  /\ pc' = "threw"
  /\ UNCHANGED <<llmConfig, apiKeyUsable, vendorClient, valueStorage, events,
                 call, lastCall, completedCalls, storeCount, lastWrite,
                 response,
                 dispatchVars, responsesSent,
                 facadeVars, slots, args, ret, requests>>

\* ---------------------- POST "/" : response building and res.json(response)
PostRespond ==
  /\ pc = "returned"
  /\ response' = [status |-> 200,
                  body |-> resJson(buildResponse(result, valueStorage, events))]
  /\ pc' = "idle"
  /\ UNCHANGED <<llmConfig, apiKeyUsable, vendorClient, valueStorage, events,
                 call, lastCall, completedCalls, storeCount, lastWrite, result,
                 dispatchVars, facadeVars, slots, args, ret, requests>>
  /\ responsesSent' = responsesSent + 1

\* ------------------------------------------- POST "/" : catch branch
PostCatch ==
  /\ pc = "threw"
  /\ response' = [status |-> catchStatus(result), body |-> catchBody(result)]
  /\ pc' = "idle"
  /\ UNCHANGED <<llmConfig, apiKeyUsable, vendorClient, valueStorage, events,
                 call, lastCall, completedCalls, storeCount, lastWrite, result,
                 dispatchVars, facadeVars, slots, args, ret, requests>>
  /\ responsesSent' = responsesSent + 1

\* inputs of the dispatch-level specification
DispatchVendorErrors == {ApiError(500)}
DispatchHTTPErrors == {[name |-> "TimeoutError", message |-> "The operation timed out"]}

Next ==
  \/ \E header \in ApiKeyHeaders, payload \in Payloads : PostBegin(header, payload)
  \/ \E header \in ApiKeyHeaders : AuthRejects(header)
  \/ \E key \in Keys, value \in Values : BLStoreValue(key, value)
  \/ LLMGenerateContent
  \/ GoogleAttemptSucceeds
  \/ \E error \in DispatchVendorErrors : GoogleAttemptFails(error, 0)
  \/ BackoffElapsed
  \/ \E outcome \in {VendorOk(1), ApiError(400)} : OpenAISettles(outcome)
  \/ \E body \in RequestBodies : HTTPRequest(body)
  \/ FetchResolves(200)
  \/ \E error \in DispatchHTTPErrors : FetchRejects(error)
  \/ \E res \in AgentResponses : HandleReturns(res)
  \/ \E error \in ThrowableErrors : HandleThrows(error)
  \/ PostRespond
  \/ PostCatch

Spec == Init /\ [][Next]_vars

\* ------------- one Google provider behind the facade, every vendor outcome
ValidPayload == [metadataOk |-> TRUE, messages |-> <<Msg("User", "hi", TRUE)>>]

InitRetry ==
  /\ Init
  /\ llmConfig = "google"
  /\ apiKeyUsable

NextRetry ==
  \/ PostBegin(Def(ApiKey), ValidPayload)
  \/ LLMGenerateContent
  \/ GoogleAttemptSucceeds
  \/ \E error \in VendorErrors, jitter \in JitterSamples : GoogleAttemptFails(error, jitter)
  \/ BackoffElapsed
  \/ HandleReturns([type |-> "continue", message |-> Def("hello")])
  \/ \E error \in ThrowableErrors : HandleThrows(error)
  \/ PostRespond
  \/ PostCatch

SpecRetry == InitRetry /\ [][NextRetry]_vars

\* ----- outbound calls of one request: HTTPClient and the Google provider,
\* ----- every way a fetch can fail, and a vendor call that times out
\* the vendor SDK gives up waiting: the rejection is not an ApiError
VendorTimeout == [name |-> "TimeoutError", status |-> 0, message |-> "The operation timed out"]

NextOutbound ==
  \/ PostBegin(Def(ApiKey), ValidPayload)
  \/ LLMGenerateContent
  \/ GoogleAttemptSucceeds
  \/ \E error \in {ApiError(500), VendorTimeout} : GoogleAttemptFails(error, 0)
  \/ BackoffElapsed
  \/ \E body \in RequestBodies : HTTPRequest(body)
  \/ \E status \in HTTPStatuses : FetchResolves(status)
  \/ \E error \in HTTPErrors : FetchRejects(error)
  \/ HandleReturns([type |-> "continue", message |-> Def("hello")])
  \/ \E error \in ThrowableErrors : HandleThrows(error)
  \/ PostRespond
  \/ PostCatch

SpecOutbound == InitRetry /\ [][NextOutbound]_vars

\* ----------------- the facade used by several callers at the same time
dispatchState ==
  <<pc, valueStorage, events, call, lastCall, completedCalls, storeCount,
    lastWrite, result, response, dispatchVars, responsesSent>>

\* LLM.<op>: getProvider throws, or the caller awaits providerPromise
FacadeEnter(i, op) ==
  /\ slots[i].pc \in {"idle", "done", "failed"}
  /\ slots' = [slots EXCEPT ![i] =
                 IF getProvider(providerPromise).ok
                   THEN [pc |-> "awaiting", op |-> op]
                   ELSE [pc |-> "failed", op |-> op,
                         message |-> getProvider(providerPromise).message]]
  /\ UNCHANGED <<llmConfig, apiKeyUsable, vendorClient, facadeVars,
                 dispatchState, args, ret, requests>>

FacadeCall(i, op) == op \in LLMOps /\ FacadeEnter(i, op)

FacadeCandidatesCall(i, op) == op \in LLMCandidateOps /\ FacadeEnter(i, op)

\* the dynamic import of initializeProvider resolves, the provider is built
ProviderImported ==
  /\ providerPromise.state = "pending"
  /\ providerPromise' = initializeProvider(providersConstructed)
  /\ providersConstructed' = providersConstructed + 1
  /\ UNCHANGED <<llmConfig, apiKeyUsable, vendorClient, clientsCreated, slots,
                 dispatchState, args, ret, requests>>

\* a caller resumes with the provider and runs its method up to the vendor
\* request: getGenAI / getOpenAI
ProviderResumes(i) ==
  /\ slots[i].pc = "awaiting"
  /\ providerPromise.state = "fulfilled"
  /\ LET g == getGenAI(vendorClient, apiKeyUsable)
     IN /\ vendorClient' = g.client
        /\ clientsCreated' = clientsCreated + g.created
        /\ slots' = [slots EXCEPT ![i] =
                       IF g.ok
                         THEN [pc |-> "inflight", op |-> @.op,
                               provider |-> providerPromise.value,
                               client |-> clientsCreated + g.created]
                         ELSE [pc |-> "failed", op |-> @.op,
                               provider |-> providerPromise.value,
                               message |-> "Failed to initialize provider"]]
  /\ UNCHANGED <<llmConfig, apiKeyUsable, providerPromise, providersConstructed,
                 dispatchState, args, ret, requests>>

\* the vendor request of a caller settles
FacadeVendorSettles(i, ok) ==
  /\ slots[i].pc = "inflight"
  /\ slots' = [slots EXCEPT ![i] =
                 [pc |-> IF ok THEN "done" ELSE "failed", op |-> @.op,
                  provider |-> @.provider, client |-> @.client,
                  message |-> IF ok THEN "text" ELSE "api 400"]]
  /\ UNCHANGED <<llmConfig, apiKeyUsable, vendorClient, facadeVars,
                 dispatchState, args, ret, requests>>

NextFacade ==
  \/ \E i \in CallIds, op \in LLMOps : FacadeCall(i, op)
  \/ \E i \in CallIds, op \in LLMCandidateOps : FacadeCandidatesCall(i, op)
  \/ ProviderImported
  \/ \E i \in CallIds : ProviderResumes(i)
  \/ \E i \in CallIds, ok \in BOOLEAN : FacadeVendorSettles(i, ok)

SpecFacade == Init /\ [][NextFacade]_vars

\* ------- business logic that awaits several facade calls at the same time
\* (Promise.all over context.llm / context.http calls of one request)
\* the one event a call records when it settles: withTiming of the provider,
\* or the success / error branch of HTTPClient.request
settledEvent(kind, n, ok) ==
  IF kind = "llm"
    THEN IF ok THEN withTimingSuccessEvent(n, VendorOk(n).message)
               ELSE withTimingErrorEvent(n, ApiError(400))
    ELSE IF ok THEN apiCallEvent(n, Undef, 200, "body")
               ELSE apiCallEvent(n, Undef, httpErrorStatus(NetworkError),
                                 httpErrorBody(NetworkError))

\* fault: the array is rebuilt from what the call saw when it started
eventsPush_stale(evs, e) == <<e>>

\* events.push(event): Array.prototype.push runs to completion
eventsPush(evs, e) == Append(evs, e)

\* the n-th call of the request starts and suspends at its vendor request
ParallelStart(i, kind) ==
  /\ pc = "handle"
  /\ slots[i].pc = "idle"
  /\ slots' = [slots EXCEPT ![i] =
                 [pc |-> "inflight", kind |-> kind,
                  n |-> 1 + Cardinality({j \in CallIds : slots[j].pc # "idle"})]]
  /\ IF kind = "llm"
       THEN /\ providerPromise' = IF providerPromise.state = "pending"
                                    THEN initializeProvider(providersConstructed)
                                    ELSE providerPromise
            /\ providersConstructed' = IF providerPromise.state = "pending"
                                         THEN providersConstructed + 1
                                         ELSE providersConstructed
            /\ vendorClient' = getGenAI(vendorClient, apiKeyUsable).client
            /\ clientsCreated' =
                  clientsCreated + getGenAI(vendorClient, apiKeyUsable).created
       ELSE UNCHANGED <<vendorClient, facadeVars>>
  /\ UNCHANGED <<llmConfig, apiKeyUsable, dispatchState, args, ret, requests>>

\* the vendor request or the fetch of a suspended call settles: the call
\* resumes, pushes its event and resolves or rejects
ParallelSettles(i, ok) ==
  /\ pc = "handle"
  /\ slots[i].pc = "inflight"
  /\ events' = eventsPush(events, settledEvent(slots[i].kind, slots[i].n, ok))
  /\ completedCalls' = completedCalls + 1
  /\ slots' = [slots EXCEPT ![i] =
                 [pc |-> IF ok THEN "done" ELSE "failed", kind |-> @.kind,
                  n |-> @.n, ok |-> ok, completed |-> completedCalls + 1]]
  /\ UNCHANGED <<llmConfig, apiKeyUsable, vendorClient, facadeVars, pc,
                 valueStorage, call, lastCall, storeCount, lastWrite, result,
                 response, dispatchVars, responsesSent, args, ret, requests>>

NextParallel ==
  \/ responsesSent = 0 /\ PostBegin(Def(ApiKey), ValidPayload)
  \/ \E i \in CallIds, kind \in {"llm", "http"} : ParallelStart(i, kind)
  \/ \E i \in CallIds, ok \in BOOLEAN : ParallelSettles(i, ok)
  \/ /\ \A i \in CallIds : slots[i].pc # "inflight"
     /\ HandleReturns([type |-> "continue", message |-> Def("hello")])
  \/ PostRespond

SpecParallel == InitRetry /\ [][NextParallel]_vars

\* ---------- the write paths of the request's event array: Context.logLLMCall,
\* ---------- Context.logAPICall and the two contextual facades
\* the array the POST handler creates (const events: Event[] = [])
RequestArray == "request"


\* fault: the contextual LLM facade is built without the array and falls
\* back to its default parameter, an array of its own
ContextRefs_ownArray(eventsArg) ==
  [events |-> eventsArg, llm |-> "default", http |-> eventsArg]

\* Context.constructor: this.events = events and both contextual facades are
\* constructed with this.events
ContextRefs(eventsArg) ==
  [events |-> eventsArg, llm |-> eventsArg, http |-> eventsArg]

\* array.push(e) as seen through the handler's array
arrayPush(array, evs, e) == IF array = RequestArray THEN eventsPush(evs, e) ELSE evs

LLMCallInputs ==
  {[prompt |-> "custom prompt", response |-> "custom response", model |-> "custom"]}
APICallInputs ==
  [url : {"custom url"}, requestBody : RequestBodies,
   responseStatusCode : {200}, responseBody : {"custom body"}]

logLLMCallEvent(input) ==
  [type |-> "llm_call",
   payload |-> [prompt |-> input.prompt, response |-> input.response,
                model |-> input.model]]

logAPICallEvent(input) ==
  [type |-> "api_call",
   payload |-> [url |-> input.url, requestBody |-> input.requestBody,
                responseStatusCode |-> input.responseStatusCode,
                responseBody |-> input.responseBody]]

writeFrame ==
  <<llmConfig, apiKeyUsable, pc, valueStorage, call, lastCall, storeCount,
    lastWrite, result, response, dispatchVars, responsesSent, slots, args, ret,
    requests>>

\* context.logLLMCall(input)
ContextLogLLMCall(input) ==
  /\ pc = "handle"
  /\ completedCalls < MaxCalls
  /\ events' = arrayPush(ContextRefs(RequestArray).events, events,
                         logLLMCallEvent(input))
  /\ completedCalls' = completedCalls + 1
  /\ UNCHANGED <<writeFrame, vendorClient, facadeVars>>

\* context.logAPICall(input)
ContextLogAPICall(input) ==
  /\ pc = "handle"
  /\ completedCalls < MaxCalls
  /\ events' = arrayPush(ContextRefs(RequestArray).events, events,
                         logAPICallEvent(input))
  /\ completedCalls' = completedCalls + 1
  /\ UNCHANGED <<writeFrame, vendorClient, facadeVars>>

\* await context.llm.generateContent(...): the contextual facade hands
\* this.events to the base facade, whose provider records the call
ContextualLLMCall(ok) ==
  /\ pc = "handle"
  /\ completedCalls < MaxCalls
  /\ providerPromise' = IF providerPromise.state = "pending"
                          THEN initializeProvider(providersConstructed)
                          ELSE providerPromise
  /\ providersConstructed' = IF providerPromise.state = "pending"
                               THEN providersConstructed + 1
                               ELSE providersConstructed
  /\ vendorClient' = getGenAI(vendorClient, apiKeyUsable).client
  /\ clientsCreated' = clientsCreated + getGenAI(vendorClient, apiKeyUsable).created
  /\ events' = arrayPush(ContextRefs(RequestArray).llm, events,
                         settledEvent("llm", completedCalls + 1, ok))
  /\ completedCalls' = completedCalls + 1
  /\ UNCHANGED writeFrame

\* await context.http.get(...): the contextual facade hands this.events to
\* HTTPClient.request, which records the call
ContextualHTTPCall(ok) ==
  /\ pc = "handle"
  /\ completedCalls < MaxCalls
  /\ events' = arrayPush(ContextRefs(RequestArray).http, events,
                         settledEvent("http", completedCalls + 1, ok))
  /\ completedCalls' = completedCalls + 1
  /\ UNCHANGED <<writeFrame, vendorClient, facadeVars>>

NextEvents ==
  \/ PostBegin(Def(ApiKey), ValidPayload)
  \/ \E input \in LLMCallInputs : ContextLogLLMCall(input)
  \/ \E input \in APICallInputs : ContextLogAPICall(input)
  \/ \E ok \in BOOLEAN : ContextualLLMCall(ok)
  \/ \E ok \in BOOLEAN : ContextualHTTPCall(ok)
  \/ HandleReturns([type |-> "continue", message |-> Def("hello")])
  \/ PostRespond

SpecEvents == InitRetry /\ [][NextEvents]_vars

\* ------------ several requests handled at the same time by one Agent
\* Each run of the POST handler has its own locals; the Agent's LLM facade
\* (providerPromise, vendorClient) is shared.  Request r carries its own
\* conversation, Prompt(r), and its business logic stores RequestValue(r).
RequestValue(r) == Def("value " \o ToString(r))

\* the handler is parked at the await of a vendor request or of a backoff
Suspended(q) == q.pc \in {"llm_inflight", "llm_sleep"}


\* fault: requests are taken one at a time
CanAccept_serial(reqs, r) ==
  /\ reqs[r].pc \in {"idle", "answered"}
  /\ \A a \in RequestIds : ~Suspended(reqs[a])

\* Express invokes the route handler for every request that arrives,
\* whatever the handlers of earlier requests are waiting for
CanAccept(reqs, r) == reqs[r].pc \in {"idle", "answered"}


\* fault: the arrays live on the Agent and are handed to every request
NewRequestLocals_shared(reqs, r) ==
  LET others == {a \in RequestIds : a # r /\ reqs[a].pc # "idle"}
  IN IF others = {}
       THEN [events |-> <<>>, valueStorage |-> EmptyObj]
       ELSE LET a == CHOOSE a \in others : TRUE
            IN [events |-> reqs[a].events, valueStorage |-> reqs[a].valueStorage]

\* const valueStorage = {}; const events = [];
NewRequestLocals(reqs, r) == [events |-> <<>>, valueStorage |-> EmptyObj]

\* request r has taken a step of its facade call with q as its new locals:
\* the other requests have no longer run entirely within one suspension
Resumed(reqs, r, q) ==
  [b \in RequestIds |->
     IF b = r THEN q
     ELSE IF reqs[b].pc = "idle" THEN reqs[b]
     ELSE [reqs[b] EXCEPT !.overtook = FALSE]]

requestFrame == <<llmConfig, apiKeyUsable, slots, dispatchState, args, ret>>

\* POST "/" for request r, up to await this.handle(context)
RequestAccepted(r) ==
  /\ CanAccept(requests, r)
  /\ requests' = [requests EXCEPT ![r] =
        [pc |-> "handle",
         events |-> NewRequestLocals(requests, r).events,
         valueStorage |-> NewRequestLocals(requests, r).valueStorage,
         calls |-> 0, attempt |-> 0, stored |-> FALSE,
         overtook |-> \E a \in RequestIds \ {r} : Suspended(requests[a])]]
  /\ UNCHANGED <<vendorClient, facadeVars, requestFrame>>

\* business logic of r: context.storeValue
RequestStoresValue(r) ==
  /\ requests[r].pc = "handle"
  /\ requests' = [requests EXCEPT ![r] =
        [@ EXCEPT !.valueStorage = storeValue(@, "key", RequestValue(r)),
                  !.stored = TRUE]]
  /\ UNCHANGED <<vendorClient, facadeVars, requestFrame>>

\* business logic of r: context.llm.generateContent up to the vendor request
RequestCallsLLM(r) ==
  /\ requests[r].pc = "handle"
  /\ requests[r].calls < MaxRequestCalls
  /\ requests' = [requests EXCEPT ![r] =
        [@ EXCEPT !.pc = "llm_inflight", !.attempt = 0]]
  /\ providerPromise' = IF providerPromise.state = "pending"
                          THEN initializeProvider(providersConstructed)
                          ELSE providerPromise
  /\ providersConstructed' = IF providerPromise.state = "pending"
                               THEN providersConstructed + 1
                               ELSE providersConstructed
  /\ vendorClient' = getGenAI(vendorClient, apiKeyUsable).client
  /\ clientsCreated' = clientsCreated + getGenAI(vendorClient, apiKeyUsable).created
  /\ UNCHANGED requestFrame

\* the vendor request of r resolves: withTiming pushes the event of the call
RequestAttemptSucceeds(r) ==
  /\ requests[r].pc = "llm_inflight"
  /\ requests' = Resumed(requests, r,
        [requests[r] EXCEPT
           !.pc = "handle",
           !.events = eventsPush(@, withTimingSuccessEvent(r, VendorOk(1).message)),
           !.calls = @ + 1])
  /\ UNCHANGED <<vendorClient, facadeVars, requestFrame>>

\* the vendor request of r rejects: retryWithBackoff sleeps or gives up
RequestAttemptFails(r, error) ==
  /\ requests[r].pc = "llm_inflight"
  /\ requests' = Resumed(requests, r,
        IF shouldRetry(requests[r].attempt, error)
          THEN [requests[r] EXCEPT !.pc = "llm_sleep"]
          ELSE [requests[r] EXCEPT
                  !.pc = "handle",
                  !.events = eventsPush(@, withTimingErrorEvent(r, error)),
                  !.calls = @ + 1])
  /\ UNCHANGED <<vendorClient, facadeVars, requestFrame>>

\* the backoff timer of r fires
RequestBackoffElapsed(r) ==
  /\ requests[r].pc = "llm_sleep"
  /\ requests' = Resumed(requests, r,
        [requests[r] EXCEPT !.pc = "llm_inflight", !.attempt = @ + 1])
  /\ UNCHANGED <<vendorClient, facadeVars, requestFrame>>

\* handle() of r resolves; the handler builds the response and sends it
RequestAnswered(r, res) ==
  /\ requests[r].pc = "handle"
  /\ requests' = [requests EXCEPT ![r] =
        [@ EXCEPT !.pc = "answered"] @@
        ("response" :> [status |-> 200,
                        body |-> resJson(buildResponse(res, requests[r].valueStorage,
                                                       requests[r].events))])]
  /\ UNCHANGED <<vendorClient, facadeVars, requestFrame>>

\* the vendor fails the first attempt of a call with a transient error and
\* a later one with a permanent error
RequestVendorErrors(q) ==
  IF q.pc = "llm_inflight" /\ q.attempt = 0 THEN {ApiError(500)} ELSE {ApiError(400)}

NextRequests ==
  \/ \E r \in RequestIds : RequestAccepted(r)
  \/ \E r \in RequestIds : RequestStoresValue(r)
  \/ \E r \in RequestIds : RequestCallsLLM(r)
  \/ \E r \in RequestIds : RequestAttemptSucceeds(r)
  \/ \E r \in RequestIds :
        \E error \in RequestVendorErrors(requests[r]) : RequestAttemptFails(r, error)
  \/ \E r \in RequestIds : RequestBackoffElapsed(r)
  \/ \E r \in RequestIds :
        RequestAnswered(r, [type |-> "continue", message |-> Def("hello")])

SpecRequests == InitRetry /\ [][NextRequests]_vars

\* ------------------------------------------ the provider's pure helpers
\* A text is a sequence of tokens (tags, the separator, words), the empty
\* string is <<>>; an optional argument is Undef or Def(value).
NL == "\\n"

Truthy(text) == text.defined /\ text.val # <<>>


\* fault: && in the place of ??, an explicit true does not override a false default
Coalesce_and(flag, default) == (flag.defined => flag.val) /\ default

\* fault: || in the place of ??, an explicit false does not override a true default
Coalesce_or(flag, default) == (flag.defined /\ flag.val) \/ default

\* flag ?? default
Coalesce(flag, default) == IF flag.defined THEN flag.val ELSE default

RECURSIVE Join(_, _)
\* parts.join(sep)
Join(parts, sep) ==
  IF parts = <<>> THEN <<>>
  ELSE IF Len(parts) = 1 THEN parts[1]
  ELSE parts[1] \o sep \o Join(Tail(parts), sep)

buildPersonaInstruction(persona) ==
  LET parts ==
        (IF Truthy(persona.name)
           THEN << <<"<name>">> \o persona.name.val \o <<"</name>">> >> ELSE <<>>)
        \o (IF Truthy(persona.businessContext)
              THEN << <<"<business_context>", NL>> \o persona.businessContext.val
                      \o <<NL, "</business_context>">> >> ELSE <<>>)
        \o (IF Truthy(persona.toneOfVoice)
              THEN << <<"<tone_of_voice>", NL>> \o persona.toneOfVoice.val
                      \o <<NL, "</tone_of_voice>">> >> ELSE <<>>)
      content == IF Len(parts) > 0
                   THEN <<NL>> \o Join(parts, <<NL, NL>>) \o <<NL>>
                   ELSE <<NL>>
  IN <<"<persona>">> \o content \o <<"</persona>">>

buildSystemInstruction(systemInstruction, includePersona, includeContext, persona, contextText, defaults) ==
  LET shouldIncludePersona == Coalesce(includePersona, defaults.includePersona)
      shouldIncludeContext == Coalesce(includeContext, defaults.includeContext)
      parts ==
        (IF shouldIncludePersona /\ persona.defined
           THEN <<buildPersonaInstruction(persona.val)>> ELSE <<>>)
        \o (IF Truthy(systemInstruction)
              THEN << <<"<instructions>", NL>> \o systemInstruction.val
                      \o <<NL, "</instructions>">> >> ELSE <<>>)
        \o (IF Truthy(contextText) /\ shouldIncludeContext
              THEN << <<"<context>", NL>> \o contextText.val
                      \o <<NL, "</context>">> >> ELSE <<>>)
  IN Join(parts, <<NL, NL>>)

\* inputs
OptionalFlags == {Undef, Def(TRUE), Def(FALSE)}
OptionalTexts(word) == {Undef, Def(<<>>), Def(<<word>>)}
Personas ==
  {Undef} \cup
  {Def([name |-> n, businessContext |-> b, toneOfVoice |-> t]) :
     n \in {Undef, Def(<<"Zoe">>)}, b \in {Undef, Def(<<"shop">>)},
     t \in {Undef, Def(<<"warm">>)}}

BuildArgs ==
  [fn : {"buildSystemInstruction"},
   systemInstruction : OptionalTexts("be brief"),
   includePersona : OptionalFlags,
   includeContext : OptionalFlags,
   persona : Personas,
   contextText : OptionalTexts("order 42"),
   defaults : [includePersona : BOOLEAN, includeContext : BOOLEAN]]

Returned(value) == [returned |-> TRUE, val |-> value]

pureFrame ==
  <<llmConfig, apiKeyUsable, vendorClient, facadeVars, slots, dispatchState, args, requests>>

BuildSystemInstruction ==
  /\ args.fn = "buildSystemInstruction"
  /\ ~ret.returned
  /\ ret' = Returned(buildSystemInstruction(args.systemInstruction, args.includePersona,
                                            args.includeContext, args.persona,
                                            args.contextText, args.defaults))
  /\ UNCHANGED pureFrame

InitProvider ==
  /\ InitAgent
  /\ llmConfig \in {"google", "openai"}
  /\ apiKeyUsable
  /\ ret = NoRet

InitBuild == InitProvider /\ llmConfig = "google" /\ args \in BuildArgs

SpecBuild == InitBuild /\ [][BuildSystemInstruction]_vars

\* ------------------------------------------ conversation to vendor turns
SeqsUpTo(S, n) == UNION {[1..k -> S] : k \in 0..n}

Conversations ==
  SeqsUpTo([author : {"User", "Chatbot", "Agent"}, content : {"hi", "ok"}],
           MaxMessages)

\* GoogleProvider.prepareHistory
prepareHistory(messages) ==
  [i \in DOMAIN messages |->
     [role |-> IF messages[i].author = "User" THEN "user" ELSE "model",
      parts |-> <<[text |-> messages[i].content]>>]]


\* fault: the system turn is pushed without the test
prepareMessages_alwaysSystem(messages, systemInstruction) ==
  <<[role |-> "system",
     content |-> IF systemInstruction.defined THEN systemInstruction.val ELSE <<>>]>>
  \o [i \in DOMAIN messages |->
        [role |-> IF messages[i].author = "User" THEN "user" ELSE "assistant",
         content |-> messages[i].content]]

\* OpenAIProvider.prepareMessages
prepareMessages(messages, systemInstruction) ==
  (IF Truthy(systemInstruction)
     THEN <<[role |-> "system", content |-> systemInstruction.val]>>
     ELSE <<>>)
  \o [i \in DOMAIN messages |->
        [role |-> IF messages[i].author = "User" THEN "user" ELSE "assistant",
         content |-> messages[i].content]]

TurnArgs ==
  [fn : {"prepareHistory"}, messages : Conversations]
    \cup [fn : {"prepareMessages"}, messages : Conversations,
          systemInstruction : OptionalTexts("<instructions>")]

PrepareHistory ==
  /\ args.fn = "prepareHistory"
  /\ ~ret.returned
  /\ ret' = Returned(prepareHistory(args.messages))
  /\ UNCHANGED pureFrame

PrepareMessages ==
  /\ args.fn = "prepareMessages"
  /\ ~ret.returned
  /\ ret' = Returned(prepareMessages(args.messages, args.systemInstruction))
  /\ UNCHANGED pureFrame

InitTurns ==
  /\ InitProvider
  /\ args \in TurnArgs
  /\ (args.fn = "prepareHistory") <=> (llmConfig = "google")

NextTurns == PrepareHistory \/ PrepareMessages

SpecTurns == InitTurns /\ [][NextTurns]_vars

\* ------------------------------------------------ multi-candidate calls
\* A candidate of the vendor response: its text ("" when it has none) and
\* what it is: plain text, JSON that fits the schema ("valid"), text that
\* is not JSON ("badjson"), JSON that does not fit ("mismatch"), a refusal,
\* or nothing ("empty").
Candidate(kind, i) ==
  [kind |-> kind,
   text |-> IF kind \in {"empty", "refusal"} THEN "" ELSE "c" \o ToString(i)]

CandidateKinds(provider, fn) ==
  IF fn = "generateContentWithCandidates"
    THEN IF provider = "google" THEN {"text", "empty"}
                                ELSE {"text", "empty", "refusal"}
    ELSE IF provider = "google" THEN {"valid", "badjson", "mismatch", "empty"}
                                ELSE {"valid", "mismatch", "refusal"}

\* the vendor answers a request for count candidates with at most count
VendorResponses(provider, fn, count) ==
  {[i \in DOMAIN ks |-> Candidate(ks[i], i)] :
     ks \in SeqsUpTo(CandidateKinds(provider, fn), count)}

Resolved(values, warnings) ==
  [returned |-> TRUE, ok |-> TRUE, val |-> values, warnings |-> warnings,
   error |-> ""]

Threw(message, warnings) ==
  [returned |-> TRUE, ok |-> FALSE, val |-> <<>>, warnings |-> warnings,
   error |-> message]

RECURSIVE CollectTexts(_)
\* for (const candidate of candidates) { if (text) results.push(text) }
CollectTexts(cands) ==
  IF cands = <<>> THEN <<>>
  ELSE (IF Head(cands).text # "" THEN <<Head(cands).text>> ELSE <<>>)
         \o CollectTexts(Tail(cands))

RECURSIVE CollectRefusals(_)
\* else if (choice.message?.refusal) logger.warn("Candidate refused: ...")
CollectRefusals(cands) ==
  IF cands = <<>> THEN <<>>
  ELSE (IF Head(cands).text = "" /\ Head(cands).kind = "refusal"
          THEN <<"Candidate refused">> ELSE <<>>)
         \o CollectRefusals(Tail(cands))

RECURSIVE CollectValidated(_)
\* if (text) { try { results.push(schema.parse(JSON.parse(text))) } ... }
CollectValidated(cands) ==
  IF cands = <<>> THEN <<>>
  ELSE (IF Head(cands).text # "" /\ Head(cands).kind = "valid"
          THEN <<Head(cands).text>> ELSE <<>>)
         \o CollectValidated(Tail(cands))

RECURSIVE CollectParseWarnings(_)
\* ... catch (error) { logger.warn("Failed to parse candidate: ...") }
CollectParseWarnings(cands) ==
  IF cands = <<>> THEN <<>>
  ELSE (IF Head(cands).text # "" /\ Head(cands).kind # "valid"
          THEN <<"Failed to parse candidate: " \o Head(cands).text>> ELSE <<>>)
         \o CollectParseWarnings(Tail(cands))

RECURSIVE CollectParsed(_)
\* const parsed = choice.message?.parsed; if (parsed) results.push(parsed)
CollectParsed(cands) ==
  IF cands = <<>> THEN <<>>
  ELSE (IF Head(cands).kind = "valid" THEN <<Head(cands).text>> ELSE <<>>)
         \o CollectParsed(Tail(cands))

googleGenerateContentWithCandidates(cands) ==
  IF CollectTexts(cands) = <<>>
    THEN Threw("No content received from Google", <<>>)
    ELSE Resolved(CollectTexts(cands), <<>>)

openaiGenerateContentWithCandidates(cands) ==
  IF CollectTexts(cands) = <<>>
    THEN Threw("No content received from OpenAI", CollectRefusals(cands))
    ELSE Resolved(CollectTexts(cands), CollectRefusals(cands))

googleGenerateStructuredContentWithCandidates(cands) ==
  IF CollectValidated(cands) = <<>>
    THEN Threw("No valid parsed content received from Google",
               CollectParseWarnings(cands))
    ELSE Resolved(CollectValidated(cands), CollectParseWarnings(cands))

\* The content of a choice is validated inside chat.completions.parse of the
\* vendor SDK, not by the provider: for a content that does not fit the
\* schema the SDK either rejects the whole call or leaves parsed null.
openaiGenerateStructuredContentWithCandidates(cands, sdkRejects) ==
  IF sdkRejects /\ \E i \in DOMAIN cands : cands[i].kind = "mismatch"
    THEN Threw("ZodError", <<>>)
    ELSE IF CollectParsed(cands) = <<>>
      THEN Threw("No parsed content received from OpenAI", <<>>)
      ELSE Resolved(CollectParsed(cands), <<>>)

RECURSIVE JoinStrings(_)
JoinStrings(texts) ==
  IF texts = <<>> THEN ""
  ELSE IF Len(texts) = 1 THEN texts[1]
  ELSE texts[1] \o "," \o JoinStrings(Tail(texts))

\* JSON.stringify(result) of withTiming, for an array of texts
StringifyTexts(texts) == "[" \o JoinStrings(texts) \o "]"

CandidateArgs(provider) ==
  UNION {[fn : {fn}, count : {count},
          candidates : VendorResponses(provider, fn, count),
          sdkRejects : IF provider = "openai"
                          /\ fn = "generateStructuredContentWithCandidates"
                         THEN BOOLEAN ELSE {FALSE}] :
           fn \in LLMCandidateOps, count \in 1..MaxCandidates}

candidateFrame ==
  <<llmConfig, apiKeyUsable, providerPromise, providersConstructed, slots, pc,
    valueStorage, call, lastCall, completedCalls, storeCount, lastWrite, result,
    response, dispatchVars, responsesSent, args, requests>>

\* a candidates operation of the provider: getGenAI / getOpenAI, the vendor
\* request, the loop over the candidates, and the one event of withTiming
ProviderCandidates(outcome) ==
  /\ ~ret.returned
  /\ ret' = outcome
  /\ events' = Append(events,
        IF outcome.ok
          THEN withTimingSuccessEvent(1, StringifyTexts(outcome.val))
          ELSE withTimingErrorEvent(1, [message |-> outcome.error]))
  /\ vendorClient' = getGenAI(vendorClient, apiKeyUsable).client
  /\ clientsCreated' = clientsCreated + getGenAI(vendorClient, apiKeyUsable).created
  /\ UNCHANGED candidateFrame

GenerateContentWithCandidates ==
  /\ args.fn = "generateContentWithCandidates"
  /\ ProviderCandidates(
        IF llmConfig = "google"
          THEN googleGenerateContentWithCandidates(args.candidates)
          ELSE openaiGenerateContentWithCandidates(args.candidates))

GenerateStructuredContentWithCandidates ==
  /\ args.fn = "generateStructuredContentWithCandidates"
  /\ ProviderCandidates(
        IF llmConfig = "google"
          THEN googleGenerateStructuredContentWithCandidates(args.candidates)
          ELSE openaiGenerateStructuredContentWithCandidates(args.candidates,
                                                             args.sdkRejects))

InitCandidates ==
  /\ InitProvider
  /\ args \in CandidateArgs(llmConfig)

NextCandidates ==
  \/ GenerateContentWithCandidates
  \/ GenerateStructuredContentWithCandidates

SpecCandidates == InitCandidates /\ [][NextCandidates]_vars

\* ------------------------------------------- the protocol's response schema
\* A JSON object is a function from its keys; a key that is absent is not in
\* the domain.  parse of a z.object keeps the keys the schema declares and
\* drops every other key; a missing required key or an unknown discriminator
\* makes parse throw.
ZodFail == [ok |-> FALSE]
ZodOk(value) == [ok |-> TRUE, val |-> value]

\* z.object(...) of a value that has the required keys: unknown keys go
zodStrip(o, declared) == [k \in (DOMAIN o) \cap declared |-> o[k]]


\* fault: the optional message of a transfer is not carried over
CommandSchema_dropMessage(c) ==
  IF ~({"type", "payload"} \subseteq DOMAIN c) THEN ZodFail
  ELSE IF c.type = "send_message" /\ "message" \in DOMAIN c.payload
    THEN ZodOk([type |-> c.type, payload |-> zodStrip(c.payload, {"message"})])
  ELSE IF c.type = "go_to_next_block" /\ "nextBlockReferenceKey" \in DOMAIN c.payload
    THEN ZodOk([type |-> c.type,
                payload |-> zodStrip(c.payload, {"nextBlockReferenceKey"})])
  ELSE ZodFail

\* z.discriminatedUnion("type", [SendMessageCommandSchema, GoToNextBlockCommandSchema])
CommandSchema(c) ==
  IF ~({"type", "payload"} \subseteq DOMAIN c) THEN ZodFail
  ELSE IF c.type = "send_message" /\ "message" \in DOMAIN c.payload
    THEN ZodOk([type |-> c.type, payload |-> zodStrip(c.payload, {"message"})])
  ELSE IF c.type = "go_to_next_block" /\ "nextBlockReferenceKey" \in DOMAIN c.payload
    THEN ZodOk([type |-> c.type,
                payload |-> zodStrip(c.payload, {"message", "nextBlockReferenceKey"})])
  ELSE ZodFail

\* z.discriminatedUnion("type", [LLMCallEventSchema, APICallEventSchema])
EventSchema(e) ==
  IF ~({"type", "payload"} \subseteq DOMAIN e) THEN ZodFail
  ELSE IF /\ e.type = "llm_call"
          /\ {"prompt", "response", "model", "durationInMillis"} \subseteq DOMAIN e.payload
    THEN ZodOk([type |-> e.type,
                payload |-> zodStrip(e.payload,
                   {"prompt", "response", "model", "durationInMillis"})])
  ELSE IF /\ e.type = "api_call"
          /\ {"url", "requestHeaders", "requestMethod", "responseHeaders",
              "responseStatusCode", "durationInMillis"} \subseteq DOMAIN e.payload
    THEN ZodOk([type |-> e.type,
                payload |-> zodStrip(e.payload,
                   {"url", "requestHeaders", "requestMethod", "requestBody",
                    "responseHeaders", "responseStatusCode", "responseBody",
                    "durationInMillis"})])
  ELSE ZodFail

ExternalAgentResponseSchema(r) ==
  IF \/ "command" \notin DOMAIN r
     \/ ~CommandSchema(r.command).ok
     \/ /\ "events" \in DOMAIN r
        /\ \E i \in DOMAIN r.events : ~EventSchema(r.events[i]).ok
    THEN ZodFail
    ELSE ZodOk([k \in (DOMAIN r) \cap {"command", "valuesToSave", "events"} |->
                  IF k = "command" THEN CommandSchema(r.command).val
                  ELSE IF k = "events"
                    THEN [i \in DOMAIN r.events |-> EventSchema(r.events[i]).val]
                  ELSE r[k]])

serializeExternalAgentResponse(r) == ExternalAgentResponseSchema(r)

\* responses handed to the serializer: both commands with and without the
\* optional parts, well formed or not, with or without a key the protocol
\* does not know
SerializeArgs ==
  LET extras == {EmptyObj, [debug |-> "x"]}
      payloads == {[message |-> "hi"], [nextBlockReferenceKey |-> "support"],
                   [nextBlockReferenceKey |-> "support", message |-> "bye"],
                   EmptyObj}
      commands == {[type |-> t, payload |-> p @@ x] :
                     t \in {"send_message", "go_to_next_block", "noop"},
                     p \in payloads, x \in extras}
      llm == [prompt |-> "p", response |-> "r", model |-> "m", durationInMillis |-> 1]
      api == [url |-> "u", requestHeaders |-> EmptyObj, requestMethod |-> "GET",
              responseHeaders |-> EmptyObj, responseStatusCode |-> 200,
              durationInMillis |-> 1]
      eventLists == {<<>>,
                     <<[type |-> "llm_call", payload |-> llm]>>,
                     <<[type |-> "api_call", payload |-> api],
                       [type |-> "api_call", payload |-> api @@ [responseBody |-> "b"]]>>,
                     <<[type |-> "llm_call", payload |-> api]>>}
      optional == {EmptyObj, [valuesToSave |-> [key |-> "value"]]}
                    \cup {[events |-> evs] : evs \in eventLists}
                    \cup {[valuesToSave |-> EmptyObj, events |-> evs] : evs \in eventLists}
  IN {[fn |-> "serializeExternalAgentResponse",
       response |-> [command |-> c] @@ o @@ x,
       declaredOnly |-> (x = EmptyObj /\ DOMAIN c.payload \subseteq
                           (IF c.type = "send_message" THEN {"message"}
                              ELSE {"message", "nextBlockReferenceKey"}))] :
        c \in commands, o \in optional, x \in extras}

SerializeExternalAgentResponse ==
  /\ args.fn = "serializeExternalAgentResponse"
  /\ ~ret.returned
  /\ ret' = Returned(serializeExternalAgentResponse(args.response))
  /\ UNCHANGED <<pureFrame>>

\* the serialized response is handed to the serializer again
SerializeAgain ==
  /\ args.fn = "serializeExternalAgentResponse"
  /\ ret.returned
  /\ ret.val.ok
  /\ "again" \notin DOMAIN ret
  /\ ret' = ret @@ [again |-> serializeExternalAgentResponse(ret.val.val)]
  /\ UNCHANGED <<pureFrame>>

InitSerialize == InitProvider /\ llmConfig = "google" /\ args \in SerializeArgs

NextSerialize == SerializeExternalAgentResponse \/ SerializeAgain

SpecSerialize == InitSerialize /\ [][NextSerialize]_vars

\* ------------------------------------------- the authentication middleware
AuthConfigs ==
  {Undef,
   AgentAuth,
   Def([type |-> "basic", username |-> "admin", password |-> "secret"]),
   Def([type |-> "bearer", token |-> "secret"])}

\* the headers of a request: with or without the key header, with or
\* without an Authorization header of either scheme, well formed or not
AuthHeaders ==
  LET keys == {EmptyObj} \cup
                {"x-api-key" :> k : k \in {"", "secret", "guess!", "short", AccentedKey}}
      basics == {Base64Encode(parts) :
                   parts \in {<<"admin", "secret">>, <<"admin", "guess!">>,
                              <<"guest", "secret">>, <<"admin", AccentedKey>>,
                              <<"adminsecret">>}}
      authorizations ==
        {EmptyObj} \cup
          {"authorization" :> [scheme |-> "Basic ", rest |-> b] : b \in basics} \cup
          {"authorization" :> [scheme |-> sch, rest |-> t] :
              sch \in {"Bearer ", "Token "}, t \in {"secret", "guess!", AccentedKey}}
  IN {k @@ a : k \in keys, a \in authorizations}

AuthArgs == [fn : {"middleware"}, authConfig : AuthConfigs, headers : AuthHeaders]

Middleware ==
  /\ args.fn = "middleware"
  /\ ~ret.returned
  /\ ret' = Returned(middleware(args.authConfig, args.headers))
  /\ UNCHANGED <<pureFrame>>

InitAuth == InitProvider /\ llmConfig = "google" /\ args \in AuthArgs

SpecAuth == InitAuth /\ [][Middleware]_vars

\* ------------------------------------ the facade hands a call to the provider
\* An argument list is the sequence of the values the caller passes, each
\* value a token.  LLM.generateContent declares seven parameters and
\* LLM.generateStructuredContent eight, the last one events, and each calls
\* the provider with exactly its declared parameters.
LLMParameterCount(op) == IF op = "generateContent" THEN 7 ELSE 8

LLMForward(op, arguments) ==
  SubSeq(arguments, 1, IF Len(arguments) < LLMParameterCount(op)
                         THEN Len(arguments) ELSE LLMParameterCount(op))

\* the candidates operations of the facade: the arguments go to the provider
LLMForwardCandidates(op, arguments) == arguments

ForwardArgs ==
  LET lists(op) ==
        {<<"messages">> \o (IF op \in LLMCandidateOps THEN <<"3">> ELSE <<>>)
            \o (IF op \in {"generateStructuredContent",
                           "generateStructuredContentWithCandidates"}
                  THEN <<"schema">> ELSE <<>>)
            \o <<si, ip, "false", "undefined", "undefined", "events">> \o bag :
           si \in {"undefined", "Test instruction"},
           ip \in {"undefined", "true", "false"},
           bag \in {<<>>, <<"parameters">>}}
  IN UNION {[fn : {op}, arguments : lists(op),
             outcome : {[ok |-> TRUE, value |-> "Mock response"],
                        [ok |-> FALSE, value |-> "api 400"]}] :
              op \in LLMOps \cup LLMCandidateOps}

\* LLM.<op>: await getProvider(), then return provider.<op>(...)
FacadeForwards ==
  /\ args.fn \in LLMOps \cup LLMCandidateOps
  /\ ~ret.returned
  /\ ret' = [returned |-> TRUE,
             callee |-> args.fn,
             received |-> IF args.fn \in LLMOps
                            THEN LLMForward(args.fn, args.arguments)
                            ELSE LLMForwardCandidates(args.fn, args.arguments),
             outcome |-> args.outcome]
  /\ providerPromise' = initializeProvider(providersConstructed)
  /\ providersConstructed' = providersConstructed + 1
  /\ UNCHANGED <<llmConfig, apiKeyUsable, vendorClient, clientsCreated, slots,
                 dispatchState, args, requests>>

InitForward == InitProvider /\ args \in ForwardArgs

SpecForward == InitForward /\ [][FacadeForwards]_vars

\* --------- generateStructuredContent: one result, validated by the schema
\* the schema of the caller: z.object({answer: z.string()})
JsonString(v) == [t |-> "string", v |-> v]
JsonNumber(v) == [t |-> "number", v |-> v]

\* texts a vendor can answer with (response.text || "" gives the last one)
StructuredTexts ==
  {"{\"answer\":\"yes\"}", "{ \"answer\": \"yes\" }", "{\"answer\":7}", "not json", ""}

\* JSON.parse
JSONParse(text) ==
  IF text \in {"{\"answer\":\"yes\"}", "{ \"answer\": \"yes\" }"}
    THEN [ok |-> TRUE, value |-> [answer |-> JsonString("yes")]]
    ELSE IF text = "{\"answer\":7}"
      THEN [ok |-> TRUE, value |-> [answer |-> JsonNumber(7)]]
      ELSE [ok |-> FALSE, error |-> "SyntaxError: Unexpected token"]

\* JSON.stringify of a parsed value
JSONStringify(value) ==
  IF value.answer.t = "string"
    THEN "{\"answer\":\"" \o value.answer.v \o "\"}"
    ELSE "{\"answer\":" \o ToString(value.answer.v) \o "}"


\* fault: the parsed value is returned without validation
schemaParse_unchecked(value) == [ok |-> TRUE, value |-> value]

\* schema.parse
schemaParse(value) ==
  IF "answer" \in DOMAIN value /\ value.answer.t = "string"
    THEN [ok |-> TRUE, value |-> value]
    ELSE [ok |-> FALSE, error |-> "ZodError: Expected string, received number"]

\* GoogleProvider.generateStructuredContent, after retryWithBackoff returned:
\* JSON.parse and schema.parse in one try block, any failure rethrown as Error
parseStructured(content) ==
  LET failed(why) ==
        [ok |-> FALSE,
         error |-> [name |-> "Error", status |-> 0,
                    message |-> "Failed to parse structured response: " \o why
                                  \o "\n" \o "Response: " \o content]]
  IN IF ~JSONParse(content).ok
       THEN failed(JSONParse(content).error)
       ELSE IF ~schemaParse(JSONParse(content).value).ok
         THEN failed(schemaParse(JSONParse(content).value).error)
         ELSE [ok |-> TRUE, value |-> schemaParse(JSONParse(content).value).value]

VendorStructured(content) == [name |-> "ok", status |-> 200, message |-> content]

\* context.llm.generateStructuredContent up to the first vendor request
LLMGenerateStructuredContent ==
  /\ pc = "handle"
  /\ completedCalls < MaxCalls
  /\ llmConfig # "none"
  /\ IF vendorClient = "unset" /\ ~apiKeyUsable
       THEN /\ lastCall' = Completed("llm", completedCalls + 1, "error",
                  [name |-> "Error", status |-> 0,
                   message |-> "Failed to initialize provider"], <<>>, <<>>, <<>>)
            /\ completedCalls' = completedCalls + 1
            /\ UNCHANGED <<pc, call, vendorClient>>
       ELSE /\ vendorClient' = "ready"
            /\ call' = [kind |-> "llm", provider |-> llmConfig,
                        n |-> completedCalls + 1, attempt |-> 0,
                        attemptLog |-> <<>>, warnings |-> <<>>, sleeps |-> <<>>,
                        structured |-> TRUE]
            /\ pc' = "llm_inflight"
            /\ UNCHANGED <<lastCall, completedCalls>>
  /\ providerPromise' = IF providerPromise.state = "pending"
                          THEN initializeProvider(providersConstructed)
                          ELSE providerPromise
  /\ providersConstructed' = IF providerPromise.state = "pending"
                               THEN providersConstructed + 1
                               ELSE providersConstructed
  /\ clientsCreated' = clientsCreated + getGenAI(vendorClient, apiKeyUsable).created
  /\ UNCHANGED <<llmConfig, apiKeyUsable, valueStorage, events, storeCount,
                 lastWrite, result, response, dispatchVars, responsesSent,
                 slots, args, ret, requests>>

\* Google: the vendor answers; the text is parsed and validated outside the
\* retry loop and withTiming records the result or the failure
GoogleStructuredAttemptSucceeds(content) ==
  /\ pc = "llm_inflight"
  /\ call.provider = "google"
  /\ LET p == parseStructured(content)
         log == Append(call.attemptLog, VendorStructured(content))
     IN IF p.ok
          THEN /\ events' = Append(events,
                     withTimingSuccessEvent(call.n, JSONStringify(p.value)))
               /\ lastCall' = Completed("llm", call.n, "ok",
                                        [name |-> "ok", parsed |-> p.value],
                                        log, call.warnings, call.sleeps)
          ELSE /\ events' = Append(events, withTimingErrorEvent(call.n, p.error))
               /\ lastCall' = Completed("llm", call.n, "error", p.error,
                                        log, call.warnings, call.sleeps)
  /\ completedCalls' = completedCalls + 1
  /\ call' = NoCall
  /\ pc' = "handle"
  /\ UNCHANGED <<llmConfig, apiKeyUsable, vendorClient, valueStorage, storeCount,
                 lastWrite, result, response, dispatchVars, responsesSent,
                 facadeVars, slots, args, ret, requests>>

\* what openai.chat.completions.parse does with a text that is not a value
\* of the schema is the vendor SDK's: it rejects, or it resolves with
\* message.parsed null
OpenAIParseFailures ==
  {[name |-> "LengthFinishReasonError", status |-> 0,
    message |-> "Could not parse response content"],
   [name |-> "Error", status |-> 0,
    message |-> "No parsed content received from OpenAI"]}

\* OpenAI: chat.completions.parse settles with a text
OpenAIStructuredSettles(content, failure) ==
  /\ pc = "llm_inflight"
  /\ call.provider = "openai"
  /\ failure \in OpenAIParseFailures
  /\ LET v == JSONParse(content)
         valid == v.ok /\ schemaParse(v.value).ok
         log == Append(call.attemptLog, VendorStructured(content))
     IN IF valid
          THEN /\ events' = Append(events,
                     withTimingSuccessEvent(call.n, JSONStringify(v.value)))
               /\ lastCall' = Completed("llm", call.n, "ok",
                                        [name |-> "ok", parsed |-> v.value],
                                        log, <<>>, <<>>)
          ELSE /\ events' = Append(events, withTimingErrorEvent(call.n, failure))
               /\ lastCall' = Completed("llm", call.n, "error", failure,
                                        log, <<>>, <<>>)
  /\ completedCalls' = completedCalls + 1
  /\ call' = NoCall
  /\ pc' = "handle"
  /\ UNCHANGED <<llmConfig, apiKeyUsable, vendorClient, valueStorage, storeCount,
                 lastWrite, result, response, dispatchVars, responsesSent,
                 facadeVars, slots, args, ret, requests>>

InitStructured ==
  /\ Init
  /\ llmConfig \in {"google", "openai"}

NextStructured ==
  \/ PostBegin(Def(ApiKey), ValidPayload)
  \/ LLMGenerateStructuredContent
  \/ \E content \in StructuredTexts : GoogleStructuredAttemptSucceeds(content)
  \/ GoogleAttemptFails(ApiError(500), 0)
  \/ BackoffElapsed
  \/ \E content \in StructuredTexts, failure \in OpenAIParseFailures :
        OpenAIStructuredSettles(content, failure)
  \/ HandleReturns([type |-> "continue", message |-> Def("hello")])
  \/ \E error \in ThrowableErrors : HandleThrows(error)
  \/ PostRespond
  \/ PostCatch

SpecStructured == InitStructured /\ [][NextStructured]_vars

\* ------ a logical LLM call under a scheduler that lets every vendor request
\* ------ settle and every backoff timer fire
TerminationVendorErrors == {ApiError(400), ApiError(500)}

AttemptSettles ==
  \/ GoogleAttemptSucceeds
  \/ \E error \in TerminationVendorErrors : GoogleAttemptFails(error, 0)
  \/ \E outcome \in {VendorOk(1), ApiError(400)} : OpenAISettles(outcome)

InitTermination ==
  /\ Init
  /\ llmConfig \in {"google", "openai"}
  /\ apiKeyUsable

NextTermination ==
  \/ PostBegin(Def(ApiKey), ValidPayload)
  \/ LLMGenerateContent
  \/ AttemptSettles
  \/ BackoffElapsed
  \/ HandleReturns([type |-> "continue", message |-> Def("hello")])
  \/ \E error \in ThrowableErrors : HandleThrows(error)
  \/ PostRespond
  \/ PostCatch

SpecTermination ==
  /\ InitTermination
  /\ [][NextTermination]_vars
  /\ WF_vars(AttemptSettles)
  /\ WF_vars(BackoffElapsed)

\* ------------------------- ContextualLLM and ContextualHTTPClient
\* An argument list is the list of the values passed, "undefined" standing
\* for an argument the caller left out.
HTTPVerbs == {"get", "delete"}
HTTPBodyVerbs == {"post", "put", "patch"}

\* headers: Record<string, string> = {}
headersDefault(h) == IF h = "undefined" THEN "{}" ELSE h


\* fault: the trailing parameter bag is not handed on
ContextualLLMForward_noParameters(arguments, bound) ==
  SubSeq(arguments, 1, Len(arguments) - 1)
    \o <<bound.persona, bound.context, bound.events, "undefined">>

\* ContextualLLM.<op>: this.baseLLM.<op>(..., this.persona, this.context,
\* this.events, parameters)
ContextualLLMForward(arguments, bound) ==
  SubSeq(arguments, 1, Len(arguments) - 1)
    \o <<bound.persona, bound.context, bound.events, arguments[Len(arguments)]>>

\* ContextualHTTPClient.<verb>: this.baseHTTP.<verb>(url, [body,] headers,
\* this.events, options)
ContextualHTTPForward(verb, arguments, bound) ==
  IF verb \in HTTPVerbs
    THEN <<arguments[1], headersDefault(arguments[2]), bound.events, arguments[3]>>
    ELSE <<arguments[1], arguments[2], headersDefault(arguments[3]), bound.events,
           arguments[4]>>

ContextualArgs ==
  LET llmLists(op) ==
        {<<"messages">> \o (IF op \in LLMCandidateOps THEN <<"3">> ELSE <<>>)
            \o (IF op \in {"generateStructuredContent",
                           "generateStructuredContentWithCandidates"}
                  THEN <<"schema">> ELSE <<>>)
            \o <<si, ip, ic, bag>> :
           si \in {"undefined", "Test instruction"},
           ip \in {"undefined", "true", "false"},
           ic \in {"undefined", "false"},
           bag \in {"undefined", "parameters"}}
      httpLists(verb) ==
        {<<"url">> \o (IF verb \in HTTPBodyVerbs THEN <<b>> ELSE <<>>) \o <<h, o>> :
           b \in {"undefined", "body"}, h \in {"undefined", "headers"},
           o \in {"undefined", "options"}}
      bounds == {[persona |-> "persona", context |-> "context", events |-> "events"],
                 [persona |-> "undefined", context |-> "undefined", events |-> "events"]}
      outcomes == {[ok |-> TRUE, value |-> "Mock response"],
                   [ok |-> FALSE, value |-> "api 400"]}
  IN UNION ({[fn : {op}, via : {"context.llm"}, arguments : llmLists(op),
              bound : bounds, outcome : outcomes] : op \in LLMOps \cup LLMCandidateOps}
            \cup
            {[fn : {verb}, via : {"context.http"}, arguments : httpLists(verb),
              bound : bounds, outcome : outcomes] : verb \in HTTPVerbs \cup HTTPBodyVerbs})

\* a contextual operation is called: return this.base.<op>(...)
ContextualForwards ==
  /\ args.fn \in LLMOps \cup LLMCandidateOps \cup HTTPVerbs \cup HTTPBodyVerbs
  /\ "via" \in DOMAIN args
  /\ ~ret.returned
  /\ ret' = [returned |-> TRUE,
             callee |-> [object |-> IF args.via = "context.llm" THEN "baseLLM"
                                                                 ELSE "baseHTTP",
                         method |-> args.fn],
             received |-> IF args.via = "context.llm"
                            THEN ContextualLLMForward(args.arguments, args.bound)
                            ELSE ContextualHTTPForward(args.fn, args.arguments,
                                                       args.bound),
             outcome |-> args.outcome]
  /\ UNCHANGED pureFrame

InitContextual == InitProvider /\ llmConfig = "google" /\ args \in ContextualArgs

SpecContextual == InitContextual /\ [][ContextualForwards]_vars

\* -------- the Google retry loop against every kind of failure an attempt
\* -------- can end with
\* failures that are not ApiError: the SDK cannot read the vendor's answer,
\* a value that is not an Error is thrown, an Error that carries a status
ParseError == [name |-> "SyntaxError", status |-> 0, message |-> "Unexpected token <"]
ThrownValue == [name |-> "string", status |-> 0, message |-> "boom"]
StatusBearingError == [name |-> "Error", status |-> 503, message |-> "upstream 503"]

ClassifierErrors ==
  {ApiError(s) : s \in {400, 429, 499, 500}}
    \cup {NetworkError, VendorTimeout, ParseError, ThrownValue, StatusBearingError}

NextClassifier ==
  \/ PostBegin(Def(ApiKey), ValidPayload)
  \/ LLMGenerateContent
  \/ GoogleAttemptSucceeds
  \/ \E error \in ClassifierErrors : GoogleAttemptFails(error, 0)
  \/ BackoffElapsed
  \/ HandleReturns([type |-> "continue", message |-> Def("hello")])
  \/ \E error \in ThrowableErrors : HandleThrows(error)
  \/ PostRespond
  \/ PostCatch

SpecClassifier == InitRetry /\ [][NextClassifier]_vars

\* ------- HTTPClient on its own: every verb, every body, every fetch outcome
HTTPMethods == {"GET", "POST", "PUT", "PATCH", "DELETE"}

\* a body JSON.stringify refuses: an object holding a BigInt
BigIntBody == Def("{ amount: 10n }")
HTTPClientBodies == {Undef, Def("{}"), BigIntBody}
HTTPClientStatuses == {200, 404, 500}

\* the TypeError of JSON.stringify
SerializeError ==
  [name |-> "TypeError", message |-> "Do not know how to serialize a BigInt"]

\* get and delete pass undefined to request, the other verbs their body
verbBody(method, body) ==
  IF method \in {"GET", "DELETE"} THEN Undef ELSE body

\* requestBody of the event: includeRequestBody && body ? JSON.stringify(body)
\* : undefined, for a body JSON.stringify accepts
recordedRequestBody(includeRequestBody, body) ==
  IF includeRequestBody /\ body.defined THEN body ELSE Undef

\* HTTPClient.get/post/put/patch/delete and request up to the await of fetch.
\* JSON.stringify(body) runs inside the timed operation before fetch: when it
\* throws, fetch is never called, withTiming hands the TypeError to the error
\* branch, and building the event stringifies the body again when the request
\* body is to be included, which throws out of request before events.push.
HTTPClientRequest(method, body, includeRequestBody) ==
  /\ pc = "handle"
  /\ completedCalls < MaxCalls
  /\ LET sent == verbBody(method, body)
         n == completedCalls + 1
     IN IF sent = BigIntBody
          THEN /\ events' = IF includeRequestBody
                              THEN events
                              ELSE Append(events,
                                     apiCallEvent(n, Undef,
                                                  httpErrorStatus(SerializeError),
                                                  httpErrorBody(SerializeError)))
               /\ lastCall' = Completed("http", n, "error",
                                [name |-> SerializeError.name, status |-> 0,
                                 message |-> SerializeError.message],
                                <<>>, <<>>, <<>>)
               /\ completedCalls' = n
               /\ UNCHANGED <<call, pc>>
          ELSE /\ call' = [kind |-> "http", n |-> n, method |-> method,
                           body |-> recordedRequestBody(includeRequestBody, sent),
                           fetches |-> <<method>>]
               /\ pc' = "http_inflight"
               /\ UNCHANGED <<events, lastCall, completedCalls>>
  /\ UNCHANGED <<llmConfig, apiKeyUsable, vendorClient, valueStorage, storeCount,
                 lastWrite, result, response,
                 dispatchVars, responsesSent,
                 facadeVars, slots, args, ret, requests>>

\* fetch resolved with a Response of any status: the success branch
HTTPClientFetchResolves(status) ==
  /\ pc = "http_inflight"
  /\ events' = Append(events, apiCallEvent(call.n, call.body, status, "body"))
  /\ lastCall' = Completed("http", call.n, "ok",
                           [name |-> "ok", status |-> status, message |-> "body"],
                           call.fetches, <<>>, <<>>)
  /\ completedCalls' = completedCalls + 1
  /\ call' = NoCall
  /\ pc' = "handle"
  /\ UNCHANGED <<llmConfig, apiKeyUsable, vendorClient, valueStorage, storeCount,
                 lastWrite, result, response,
                 dispatchVars, responsesSent,
                 facadeVars, slots, args, ret, requests>>

\* fetch rejected: the error branch
HTTPClientFetchRejects(error) ==
  /\ pc = "http_inflight"
  /\ events' = Append(events, apiCallEvent(call.n, call.body,
                                          httpErrorStatus(error), httpErrorBody(error)))
  /\ lastCall' = Completed("http", call.n, "error",
                           [name |-> error.name, status |-> httpErrorStatus(error),
                            message |-> error.message],
                           call.fetches, <<>>, <<>>)
  /\ completedCalls' = completedCalls + 1
  /\ call' = NoCall
  /\ pc' = "handle"
  /\ UNCHANGED <<llmConfig, apiKeyUsable, vendorClient, valueStorage, storeCount,
                 lastWrite, result, response,
                 dispatchVars, responsesSent,
                 facadeVars, slots, args, ret, requests>>

NextHTTPClient ==
  \/ PostBegin(Def(ApiKey), ValidPayload)
  \/ \E method \in HTTPMethods, body \in HTTPClientBodies,
        includeRequestBody \in BOOLEAN :
       HTTPClientRequest(method, body, includeRequestBody)
  \/ \E status \in HTTPClientStatuses : HTTPClientFetchResolves(status)
  \/ \E error \in HTTPErrors : HTTPClientFetchRejects(error)
  \/ HandleReturns([type |-> "continue", message |-> Def("hello")])
  \/ \E error \in ThrowableErrors : HandleThrows(error)
  \/ PostRespond
  \/ PostCatch

SpecHTTPClient == InitRetry /\ [][NextHTTPClient]_vars

\* ---- the whole path of a POST "/": express.json, installed by
\* ---- setupMiddleware before the routes, then the authentication
\* ---- middleware, then the route handler
\* a body express.json cannot parse: content type application/json, text
\* that is not JSON
MalformedBody == [json |-> FALSE]
JsonBody(payload) == [json |-> TRUE, payload |-> payload]
RawBodies == {MalformedBody} \cup {JsonBody(p) : p \in Payloads}

\* express.json: req.body is the parsed value and the next middleware runs,
\* or next(err) with status 400 skips every middleware and route; the
\* application installs no error handler, so express answers
expressJson(raw) ==
  IF raw.json THEN [next |-> TRUE, body |-> raw.payload]
  ELSE [next |-> FALSE, status |-> 400, body |-> [error |-> "SyntaxError"]]

\* express.json ends the request: neither the authentication middleware
\* nor the route handler runs
BodyParserRejects(header, raw) ==
  /\ pc = "idle"
  /\ ~expressJson(raw).next
  /\ request' = [apiKey |-> header, parsed |-> FALSE]
  /\ context' = NoContext
  /\ handleCalls' = 0
  /\ valueStorage' = EmptyObj
  /\ events' = <<>>
  /\ lastCall' = NoCall
  /\ completedCalls' = 0
  /\ storeCount' = 0
  /\ lastWrite' = EmptyObj
  /\ result' = NoResult
  /\ response' = [status |-> expressJson(raw).status, body |-> expressJson(raw).body]
  /\ responsesSent' = 1
  /\ UNCHANGED <<llmConfig, apiKeyUsable, vendorClient, call, pc, facadeVars,
                 slots, args, ret, requests>>

\* express.json passed the request on: authentication, then the handler
PostParsed(header, raw) ==
  /\ expressJson(raw).next
  /\ \/ AuthRejects(header)
     \/ PostBegin(header, expressJson(raw).body)

NextPipeline ==
  \/ \E header \in ApiKeyHeaders, raw \in RawBodies : BodyParserRejects(header, raw)
  \/ \E header \in ApiKeyHeaders, raw \in RawBodies : PostParsed(header, raw)
  \/ \E key \in Keys, value \in Values : BLStoreValue(key, value)
  \/ \E res \in AgentResponses : HandleReturns(res)
  \/ \E error \in ThrowableErrors : HandleThrows(error)
  \/ PostRespond
  \/ PostCatch

SpecPipeline == InitRetry /\ [][NextPipeline]_vars

\* ======================================================== properties
Last(q) == q[Len(q)]

\* the classification as the retry contract states it
ClaimRetryable(e) == e.name = "ApiError" /\ (e.status = 429 \/ e.status >= 500)
ClaimTerminal(e) ==
  e.name = "ApiError" /\ e.status >= 400 /\ e.status < 500 /\ e.status # 429

EventsOfCall(n) ==
  {i \in DOMAIN events : events[i].type = "llm_call" /\ events[i].payload.prompt = Prompt(n)}

\* C1: every settled facade call has appended exactly one event, so the
\* length of the request's event array equals the number of settled calls.
C1_OneEventPerCompletedCall == Len(events) = completedCalls

\* C2: a Google call whose every physical attempt fails with 429 or >= 500
\* makes exactly 4 attempts, never a fifth, and the caller gets the error of
\* the fourth attempt.
C2_AllAttemptsRetryable ==
  /\ lastCall.kind = "llm"
  /\ lastCall.attemptLog # <<>>
  /\ \A i \in DOMAIN lastCall.attemptLog : ClaimRetryable(lastCall.attemptLog[i])

C2_FourAttemptsThenLastError ==
  /\ call.kind = "llm" => Len(call.attemptLog) < 4
  /\ C2_AllAttemptsRetryable =>
       /\ Len(lastCall.attemptLog) = 4
       /\ lastCall.outcome = "error"
       /\ lastCall.value = lastCall.attemptLog[4]

C2_Witness ==
  /\ C2_AllAttemptsRetryable
  /\ Len(lastCall.attemptLog) = 4
  /\ lastCall.attemptLog[1] # lastCall.attemptLog[4]
  /\ lastCall.attemptLog[3] # lastCall.attemptLog[4]

\* C3: a terminal vendor error (4xx other than 429) is never retried: no
\* attempt, sleep or warning follows it, and a call whose first attempt fails
\* that way has made one attempt, slept and warned never, and raised that error.
C3_TerminalNotRetried ==
  /\ call.kind = "llm" =>
       \A i \in DOMAIN call.attemptLog : ~ClaimTerminal(call.attemptLog[i])
  /\ lastCall.kind = "llm" =>
       \A i \in DOMAIN lastCall.attemptLog :
          ClaimTerminal(lastCall.attemptLog[i]) =>
            /\ i = Len(lastCall.attemptLog)
            /\ Len(lastCall.sleeps) = i - 1
            /\ Len(lastCall.warnings) = i - 1
            /\ lastCall.outcome = "error"
            /\ lastCall.value = lastCall.attemptLog[i]

C3_Witness ==
  /\ lastCall.kind = "llm"
  /\ Len(lastCall.attemptLog) = 1
  /\ lastCall.attemptLog[1] = ApiError(404)
  /\ lastCall.sleeps = <<>>
  /\ lastCall.warnings = <<>>
  /\ lastCall.outcome = "error"

\* C4: the delay slept after the failure of attempt i (from 0) lies in
\* [1000 * 2^i, 1000 * 2^i + 500).
C4_DelayInRange(s) ==
  \A j \in DOMAIN s :
     /\ s[j].attempt = j - 1
     /\ 1000 * 2 ^ s[j].attempt <= s[j].delay
     /\ s[j].delay < 1000 * 2 ^ s[j].attempt + 500

C4_BackoffDelayBounds ==
  /\ call.kind = "llm" => C4_DelayInRange(call.sleeps)
  /\ lastCall.kind = "llm" => C4_DelayInRange(lastCall.sleeps)

C4_Witness ==
  /\ lastCall.kind = "llm"
  /\ Len(lastCall.sleeps) = 3
  /\ lastCall.sleeps[1].delay = 1499
  /\ lastCall.sleeps[2].delay = 2000
  /\ lastCall.sleeps[3].delay = 4499

\* C5: an LLM call whose last physical attempt failed has appended exactly
\* one llm_call event, with response "Error: " + message of that failure, and
\* has raised that same failure to its caller.
C5_CallFailed ==
  /\ lastCall.kind = "llm"
  /\ lastCall.attemptLog # <<>>
  /\ Last(lastCall.attemptLog).name # "ok"

C5_ErrorEventAndRethrow ==
  C5_CallFailed =>
    /\ lastCall.outcome = "error"
    /\ lastCall.value = Last(lastCall.attemptLog)
    /\ Cardinality(EventsOfCall(lastCall.n)) = 1
    /\ Len(events) >= 1
    /\ Last(events) =
         [type |-> "llm_call",
          payload |-> [prompt |-> Prompt(lastCall.n),
                       response |-> "Error: " \o Last(lastCall.attemptLog).message,
                       model |-> "model"]]

C5_Witness ==
  /\ C5_CallFailed
  /\ Len(lastCall.attemptLog) = 4
  /\ \A i \in 1..4 : lastCall.attemptLog[i] = ApiError(500)
  /\ Last(events).payload.response = "Error: api 500"

\* C6: k retryable failures (1 <= k <= 3) followed by a success: the call
\* returns the result of attempt k+1 after k+1 attempts, k warnings were
\* logged, the i-th carrying attempt index i and the delay then slept, and
\* the one event of the call carries the successful text.
C6_SucceededAfterRetries ==
  /\ lastCall.kind = "llm"
  /\ Len(lastCall.attemptLog) >= 2
  /\ Last(lastCall.attemptLog).name = "ok"
  /\ \A i \in 1..(Len(lastCall.attemptLog) - 1) : ClaimRetryable(lastCall.attemptLog[i])

C6_RetryThenSuccess ==
  C6_SucceededAfterRetries =>
    LET k == Len(lastCall.attemptLog) - 1
    IN /\ k <= 3
       /\ lastCall.outcome = "ok"
       /\ lastCall.value = VendorOk(k + 1)
       /\ Len(lastCall.warnings) = k
       /\ Len(lastCall.sleeps) = k
       /\ \A i \in 1..k :
            /\ lastCall.warnings[i].attempt = i
            /\ lastCall.warnings[i].delay = lastCall.sleeps[i].delay
       /\ Cardinality(EventsOfCall(lastCall.n)) = 1
       /\ Last(events).payload.response = VendorOk(k + 1).message

C6_Witness ==
  /\ C6_SucceededAfterRetries
  /\ Len(lastCall.attemptLog) = 4
  /\ lastCall.attemptLog[1] = ApiError(429)
  /\ Len(lastCall.warnings) = 3
  /\ lastCall.warnings[3].delay = 4499

\* C7: the command on the wire is the translation of the handler's result:
\* continue gives send_message with the message, a transfer gives
\* go_to_next_block with nextBlockReferenceKey and the optional message.
C7_ExpectedCommand ==
  IF result.type = "continue"
    THEN [type |-> "send_message", payload |-> [message |-> result.message.val]]
    ELSE IF result.message.defined
      THEN [type |-> "go_to_next_block",
            payload |-> [nextBlockReferenceKey |-> result.nextBlock,
                         message |-> result.message.val]]
      ELSE [type |-> "go_to_next_block",
            payload |-> [nextBlockReferenceKey |-> result.nextBlock]]

C8_ValuesToSaveIffStored ==
  response.status = 200 =>
    /\ ("valuesToSave" \in DOMAIN response.body) <=> (storeCount > 0)
    /\ ("valuesToSave" \in DOMAIN response.body) =>
          DOMAIN response.body.valuesToSave # {}

\* C9: a successful response carries events exactly when the request's event
\* array is non-empty, and then the same events in the same order.
C9_SameEvent(w, e) ==
  /\ w.type = e.type
  /\ IF e.type = "llm_call"
       THEN w.payload = e.payload
       ELSE /\ w.payload.url = e.payload.url
            /\ w.payload.responseStatusCode = e.payload.responseStatusCode
            /\ w.payload.responseBody = e.payload.responseBody
            /\ IF e.payload.requestBody.defined
                 THEN /\ "requestBody" \in DOMAIN w.payload
                      /\ w.payload.requestBody = e.payload.requestBody.val
                 ELSE "requestBody" \notin DOMAIN w.payload

C9_EventsIffNonEmpty ==
  response.status = 200 =>
    /\ ("events" \in DOMAIN response.body) <=> (Len(events) > 0)
    /\ ("events" \in DOMAIN response.body) =>
          /\ DOMAIN response.body.events = DOMAIN events
          /\ \A i \in DOMAIN events : C9_SameEvent(response.body.events[i], events[i])

C9_Witness ==
  /\ response.status = 200
  /\ Len(events) = 2
  /\ events[1].type = "api_call"
  /\ events[2].type = "llm_call"
  /\ "events" \in DOMAIN response.body
  /\ response.body.events[1].type = "api_call"
  /\ response.body.events[2].type = "llm_call"

\* C10: the value store holds, for each key ever written, the value of the
\* last storeValue call for it, and no other key.
C10_LastWriteWins == valueStorage = lastWrite

\* what the dispatch contract calls a valid payload and an authenticated request
ClaimValid(p) ==
  /\ p.metadataOk
  /\ \A i \in DOMAIN p.messages :
        /\ p.messages[i].author \in {"User", "Chatbot"}
        /\ p.messages[i].timestampIso

Authenticated == request # NoRequest /\ request.apiKey = Def("secret") /\ "payload" \in DOMAIN request

\* C11: an authenticated request whose payload fails validation is answered
\* with the structured 400 "Bad request" and nothing else: no Context is
\* constructed and handle is not invoked.
C11_InvalidPayloadIs400 ==
  (Authenticated /\ ~ClaimValid(request.payload)) =>
    /\ response = [status |-> 400,
                   body |-> [error |-> "Bad request",
                             message |-> "Invalid request format"]]
    /\ responsesSent = 1
    /\ pc = "idle"
    /\ ~context.constructed
    /\ handleCalls = 0
    /\ result = NoResult

C11_Witness ==
  /\ Authenticated
  /\ request.payload.metadataOk
  /\ request.payload.messages = <<Msg("Agent", "hi", TRUE)>>
  /\ response.status = 400
  /\ handleCalls = 0

\* C12: when handle has raised an error the response is the structured 500
\* "Internal server error", and only a 200 response carries events or
\* valuesToSave.
C12_HandleErrorIs500 ==
  /\ (result.type = "error" /\ responsesSent = 1) =>
        /\ response.status = 500
        /\ response.body.error = "Internal server error"
  /\ (responsesSent = 1 /\ response.status # 200) =>
        /\ "events" \notin DOMAIN response.body
        /\ "valuesToSave" \notin DOMAIN response.body

\* C13: handle is invoked at most once per request, exactly once when the
\* request is authenticated and its payload valid and not at all otherwise;
\* a request is answered exactly once, with 200, 400 or 500 once it has
\* passed authentication, and not before handle has settled.
C13_HandleAtMostOnce ==
  /\ handleCalls <= 1
  /\ responsesSent <= 1
  /\ request # NoRequest =>
        /\ handleCalls = 1 <=> (Authenticated /\ ClaimValid(request.payload))
        /\ pc = "idle" => responsesSent = 1
        /\ pc # "idle" => (responsesSent = 0 /\ handleCalls = 1)
        /\ (Authenticated /\ responsesSent = 1) => response.status \in {200, 400, 500}
        /\ result.type = "error" => handleCalls = 1

C13_Witness ==
  /\ Authenticated
  /\ result.type = "error"
  /\ result.name = "ApiError"
  /\ pc = "idle"
  /\ handleCalls = 1
  /\ responsesSent = 1
  /\ response.status = 500

\* C14: an authenticated request with valid metadata and no messages is
\* accepted: a Context with an empty message list is constructed, handle is
\* invoked once, and it starts with no events and no stored values.
C14_EmptyConversation ==
  (Authenticated /\ request.payload.metadataOk /\ request.payload.messages = <<>>) =>
    /\ context = [constructed |-> TRUE, messages |-> <<>>]
    /\ handleCalls = 1
    /\ (pc = "handle" /\ storeCount = 0 /\ completedCalls = 0) =>
          /\ events = <<>>
          /\ valueStorage = EmptyObj
          /\ response = NoResponse

C14_Witness ==
  /\ Authenticated
  /\ request.payload.messages = <<>>
  /\ context.constructed
  /\ context.messages = <<>>
  /\ response.status = 200
  /\ handleCalls = 1

\* C15: on a facade built without a provider configuration every call of
\* every operation fails with "LLM provider not configured", however many
\* calls are made, and no provider and no vendor client is ever created.
C15_NotConfigured ==
  llmConfig = "none" =>
    /\ providerPromise.state = "undefined"
    /\ providersConstructed = 0
    /\ clientsCreated = 0
    /\ vendorClient = "unset"
    /\ \A i \in CallIds :
          /\ slots[i].pc \in {"idle", "failed"}
          /\ slots[i].pc = "failed" =>
                slots[i].message = "LLM provider not configured"

C15_Witness ==
  /\ llmConfig = "none"
  /\ slots[1] = [pc |-> "failed", op |-> "generateStructuredContentWithCandidates",
                  message |-> "LLM provider not configured"]
  /\ slots[2] = [pc |-> "failed", op |-> "generateContent",
                  message |-> "LLM provider not configured"]

\* C16: one facade constructs at most one provider and at most one vendor
\* client, and all callers, however their first calls interleave, get that
\* one provider and that one client.
C16_SingleResolution ==
  /\ providersConstructed <= 1
  /\ clientsCreated <= 1
  /\ \A i \in CallIds :
        /\ "provider" \in DOMAIN slots[i] => slots[i].provider = 1
        /\ "client" \in DOMAIN slots[i] => slots[i].client = 1

C16_Witness ==
  /\ \A i \in CallIds :
        /\ slots[i].pc = "inflight"
        /\ slots[i].provider = 1
        /\ slots[i].client = 1
  /\ providersConstructed = 1
  /\ clientsCreated = 1

\* the text holds an opening tag and, after it, the matching closing tag
HasEnvelope(text, open, close) ==
  \E i, j \in DOMAIN text : i < j /\ text[i] = open /\ text[j] = close

C17_PersonaQualifies ==
  /\ args.persona.defined
  /\ IF args.includePersona.defined THEN args.includePersona.val
                                     ELSE args.defaults.includePersona

C17_ContextQualifies ==
  /\ args.contextText.defined
  /\ args.contextText.val # <<>>
  /\ IF args.includeContext.defined THEN args.includeContext.val
                                     ELSE args.defaults.includeContext

C17_InstructionQualifies ==
  args.systemInstruction.defined /\ args.systemInstruction.val # <<>>

\* C17: the built system instruction holds the <persona> envelope exactly
\* when the persona flag (the argument, or the provider default when the
\* argument is omitted) is true and a persona is given, holds the <context>
\* envelope exactly when the context flag is true and the context text is
\* non-empty, and is the empty string when no block qualifies.
C17_EnvelopesIffQualified ==
  (args.fn = "buildSystemInstruction" /\ ret.returned) =>
    /\ HasEnvelope(ret.val, "<persona>", "</persona>") <=> C17_PersonaQualifies
    /\ HasEnvelope(ret.val, "<context>", "</context>") <=> C17_ContextQualifies
    /\ (~C17_PersonaQualifies /\ ~C17_ContextQualifies /\ ~C17_InstructionQualifies)
          => ret.val = <<>>

C17_Witness ==
  /\ args.fn = "buildSystemInstruction"
  /\ args.includePersona = Def(FALSE)
  /\ args.defaults.includePersona
  /\ args.persona.defined
  /\ args.includeContext = Undef
  /\ args.defaults.includeContext
  /\ ret.returned
  /\ ret.val = <<"<context>", NL, "order 42", NL, "</context>">>

\* C18: the vendor turns are the messages in their order with their
\* content, author "User" as role user and any other author as role model
\* (Google) or assistant (OpenAI); the OpenAI turns start with one system
\* turn exactly when the system instruction is non-empty.
C18_GoogleTurns ==
  /\ Len(ret.val) = Len(args.messages)
  /\ \A i \in DOMAIN args.messages :
        /\ ret.val[i].role = "user" <=> args.messages[i].author = "User"
        /\ ret.val[i].role = "model" <=> args.messages[i].author # "User"
        /\ ret.val[i].parts = <<[text |-> args.messages[i].content]>>

C18_OpenAITurns ==
  LET hasSystem == args.systemInstruction.defined /\ args.systemInstruction.val # <<>>
      off == IF hasSystem THEN 1 ELSE 0
  IN /\ Len(ret.val) = Len(args.messages) + off
     /\ hasSystem => ret.val[1] = [role |-> "system",
                                   content |-> args.systemInstruction.val]
     /\ \A i \in DOMAIN args.messages :
           /\ ret.val[i + off].role = "user" <=> args.messages[i].author = "User"
           /\ ret.val[i + off].role = "assistant" <=> args.messages[i].author # "User"
           /\ ret.val[i + off].content = args.messages[i].content

C18_TurnsPreserveConversation ==
  /\ (args.fn = "prepareHistory" /\ ret.returned) => C18_GoogleTurns
  /\ (args.fn = "prepareMessages" /\ ret.returned) => C18_OpenAITurns

C18_Witness ==
  /\ args.fn = "prepareMessages"
  /\ args.messages = <<[author |-> "User", content |-> "hi"],
                       [author |-> "Agent", content |-> "ok"]>>
  /\ args.systemInstruction = Def(<<"<instructions>">>)
  /\ ret.returned
  /\ Len(ret.val) = 3
  /\ ret.val[3] = [role |-> "assistant", content |-> "ok"]

\* the candidates that fit the schema, and those that have a content that
\* does not
C19_ValidIndices == {i \in DOMAIN args.candidates : args.candidates[i].kind = "valid"}
C19_InvalidIndices ==
  {i \in DOMAIN args.candidates : args.candidates[i].kind \in {"badjson", "mismatch"}}

\* C19: generateStructuredContentWithCandidates returns the values of the
\* K candidates that pass validation, in candidate order; it fails exactly
\* when K = 0; each candidate that fails validation is dropped with one
\* warning and never fails the call.
C19_ValidCandidatesReturned ==
  (args.fn = "generateStructuredContentWithCandidates" /\ ret.returned) =>
    /\ ret.ok <=> C19_ValidIndices # {}
    /\ ret.ok =>
          /\ Len(ret.val) = Cardinality(C19_ValidIndices)
          /\ \A i, j \in DOMAIN ret.val :
                i < j => \E a, b \in C19_ValidIndices :
                           /\ a < b
                           /\ ret.val[i] = args.candidates[a].text
                           /\ ret.val[j] = args.candidates[b].text
          /\ \A a \in C19_ValidIndices :
                \E i \in DOMAIN ret.val : ret.val[i] = args.candidates[a].text
    /\ Len(ret.warnings) = Cardinality(C19_InvalidIndices)

\* C20: a generateContentWithCandidates(count) that succeeds returns exactly
\* count texts.
C20_LengthEqualsCount ==
  (args.fn = "generateContentWithCandidates" /\ ret.returned /\ ret.ok) =>
    Len(ret.val) = args.count

\* what the same provider operation raises when the vendor did return a
\* candidate but its content does not fit the schema
C21_AllInvalidOutcome ==
  IF llmConfig = "google"
    THEN googleGenerateStructuredContentWithCandidates(<<Candidate("mismatch", 1)>>)
    ELSE openaiGenerateStructuredContentWithCandidates(<<Candidate("mismatch", 1)>>, FALSE)

\* C21: a generateStructuredContentWithCandidates whose vendor response has
\* no candidate at all fails, and with an error that differs from the one
\* raised when candidates were returned but every one failed validation.
C21_NoContentDistinct ==
  (/\ args.fn = "generateStructuredContentWithCandidates"
   /\ ret.returned
   /\ args.candidates = <<>>) =>
     /\ ~ret.ok
     /\ ret.error # C21_AllInvalidOutcome.error

\* C22: an HTTP call whose fetch timed out has appended, as the last event,
\* an api_call event with responseStatusCode 504 and responseBody "Request
\* timeout", and has thrown the timeout error to its caller; a manual abort
\* is recorded with 499 and any other transport failure with 0.
C22_TimeoutMarker ==
  (lastCall.kind = "http" /\ lastCall.outcome = "error") =>
     /\ events # <<>>
     /\ Last(events).type = "api_call"
     /\ LET p == Last(events).payload
        IN /\ lastCall.value.name = "TimeoutError" =>
                /\ p.responseStatusCode = 504
                /\ p.responseBody = "Request timeout"
           /\ lastCall.value.name = "AbortError" => p.responseStatusCode = 499
           /\ lastCall.value.name \notin {"TimeoutError", "AbortError"} =>
                p.responseStatusCode = 0
           /\ p.responseStatusCode = 504 <=> lastCall.value.name = "TimeoutError"

C22_Witness ==
  /\ lastCall.kind = "http"
  /\ lastCall.outcome = "error"
  /\ lastCall.value.name = "TimeoutError"
  /\ Len(events) = 2
  /\ events[1].type = "api_call"
  /\ events[1].payload.responseStatusCode = 499
  /\ events[2].payload.responseStatusCode = 504
  /\ events[2].payload.responseBody = "Request timeout"

\* physical attempts made by the outbound call c when its current attempt
\* settles: retryWithBackoff counts them, HTTPClient.request makes one fetch
C23_AttemptsMade(c) == IF c.kind = "llm" THEN c.attempt + 1 ELSE 1

\* C23: an outbound call ends in a timeout error only when its retry budget
\* is used up (maxRetries + 1 attempts were made); with budget left, a
\* timed out attempt is followed by another attempt.
C23_TimeoutRetried ==
  [][(/\ completedCalls' = completedCalls + 1
      /\ lastCall'.outcome = "error"
      /\ lastCall'.value.name = "TimeoutError")
       => C23_AttemptsMade(call) = maxRetries + 1]_vars

\* the calls of the request that have settled
C24_Settled == {i \in CallIds : slots[i].pc \in {"done", "failed"}}

\* C24: the events of concurrently issued facade calls are in the request's
\* event sequence in completion order: the call that settled k-th has its
\* whole event at position k, and the sequence has one event per settled
\* call, none missing and none twice.
C24_CompletionOrder ==
  pc \in {"handle", "returned"} =>
    /\ Len(events) = Cardinality(C24_Settled)
    /\ \A i \in C24_Settled :
          /\ slots[i].completed \in DOMAIN events
          /\ events[slots[i].completed] =
                settledEvent(slots[i].kind, slots[i].n, slots[i].ok)
    /\ \A j, k \in DOMAIN events : j # k => events[j] # events[k]

C24_Witness ==
  /\ pc = "returned"
  /\ C24_Settled = CallIds
  /\ \E i, j \in CallIds :
        /\ slots[i].n < slots[j].n
        /\ slots[j].completed < slots[i].completed
        /\ slots[i].kind = "llm"
        /\ slots[j].kind = "http"
        /\ events[slots[j].completed].type = "api_call"
        /\ events[slots[i].completed].type = "llm_call"

\* C25: a request starts with an empty event sequence and value store, and
\* the response of request r carries the events of all the calls r made and
\* the value r stored, and no event or value of another request.
C25_RequestsIsolated ==
  \A r \in RequestIds :
    /\ (requests[r].pc = "handle" /\ requests[r].calls = 0 /\ ~requests[r].stored) =>
          /\ requests[r].events = <<>>
          /\ requests[r].valueStorage = EmptyObj
    /\ requests[r].pc = "answered" =>
          LET body == requests[r].response.body
              evs == IF "events" \in DOMAIN body THEN body.events ELSE <<>>
              vals == IF "valuesToSave" \in DOMAIN body
                        THEN body.valuesToSave ELSE EmptyObj
          IN /\ Len(evs) = requests[r].calls
             /\ \A i \in DOMAIN evs : evs[i].payload.prompt = Prompt(r)
             /\ \A k \in DOMAIN vals : vals[k] = RequestValue(r).val
             /\ requests[r].stored <=> "key" \in DOMAIN vals

C25_Witness ==
  /\ requests[1].pc = "answered"
  /\ requests[1].overtook
  /\ requests[1].stored
  /\ "events" \in DOMAIN requests[1].response.body
  /\ Len(requests[1].response.body.events) = 1
  /\ requests[2].pc = "llm_sleep"
  /\ requests[2].stored

\* C26: while the handler of request a is parked at a vendor request or a
\* backoff sleep, any other request b can be accepted when it arrives and
\* can be answered when its business logic is done with it.
C26_NotBlocked ==
  \A a, b \in RequestIds :
    (a # b /\ Suspended(requests[a])) =>
       /\ requests[b].pc \in {"idle", "answered"} => ENABLED RequestAccepted(b)
       /\ requests[b].pc = "handle" =>
             ENABLED RequestAnswered(b, [type |-> "continue", message |-> Def("hello")])

\* b was accepted after a was parked and is answered, a has not moved
C26_Witness ==
  \E a, b \in RequestIds :
    /\ a # b
    /\ requests[a].pc = "llm_inflight"
    /\ requests[a].attempt = 1
    /\ requests[b].pc = "answered"
    /\ requests[b].overtook
    /\ requests[b].calls = 1
    /\ requests[b].response.status = 200

\* the message texts of the exceptions the vendor SDKs and fetch raise
C27_VendorTexts ==
  {e.message : e \in VendorErrors} \cup {e.message : e \in HTTPErrors}

\* C27: a response is a command (200) or an error response, and the body of
\* the internal-error response (500) does not carry the message text of a
\* vendor exception that business logic let escape.
C27_NoVendorTextInResponse ==
  response.status = 500 =>
     /\ response.body.error = "Internal server error"
     /\ response.body.message \notin C27_VendorTexts

\* C28: a response that the schema accepts and that has only keys of the
\* protocol comes back from serializeExternalAgentResponse with the same
\* structure, and serializing what came back changes nothing.
C28_SerializeIdempotent ==
  (args.fn = "serializeExternalAgentResponse" /\ ret.returned /\ ret.val.ok) =>
     /\ args.declaredOnly => ret.val.val = args.response
     /\ "again" \in DOMAIN ret => ret.again = ret.val

C28_Witness ==
  /\ args.fn = "serializeExternalAgentResponse"
  /\ args.declaredOnly
  /\ args.response.command.type = "go_to_next_block"
  /\ "message" \in DOMAIN args.response.command.payload
  /\ {"valuesToSave", "events"} \subseteq DOMAIN args.response
  /\ Len(args.response.events) = 2
  /\ ret.returned
  /\ "again" \in DOMAIN ret
  /\ ret.again.ok

\* the request presents exactly the credential of the configuration
C29_CredentialMatches ==
  LET c == args.authConfig.val
      h == args.headers
  IN IF c.type = "api_key"
       THEN "x-api-key" \in DOMAIN h /\ h["x-api-key"] = c.apiKey
     ELSE IF "authorization" \notin DOMAIN h THEN FALSE
     ELSE IF c.type = "basic"
       THEN /\ h["authorization"].scheme = "Basic "
            /\ h["authorization"].rest = Base64Encode(<<c.username, c.password>>)
     ELSE /\ h["authorization"].scheme = "Bearer "
          /\ h["authorization"].rest = c.token

\* C29: with an authentication configuration the middleware lets a request
\* through exactly when it presents the configured credential, and answers
\* every other request with 401 without calling the handler; without a
\* configuration every request is let through.
C29_OnlyMatchingCredentialPasses ==
  (args.fn = "middleware" /\ ret.returned) =>
     IF ~args.authConfig.defined
       THEN ret.val.next
       ELSE /\ ret.val.next <=> C29_CredentialMatches
            /\ ~C29_CredentialMatches => ret.val.status = 401

\* C30: a call of one of the four facade operations reaches the provider
\* operation of the same name with the argument list the caller passed, the
\* events array and a trailing parameter bag included, and the caller gets
\* the provider's result or failure.
C30_ForwardsUnchanged ==
  (args.fn \in LLMOps \cup LLMCandidateOps /\ ret.returned) =>
     /\ ret.callee = args.fn
     /\ ret.received = args.arguments
     /\ ret.outcome = args.outcome

\* C31: provider resolution of the facade is lazy: as long as no operation
\* of the facade has been called, no provider has been constructed.
C31_NoOperationCalled == \A i \in CallIds : slots[i].pc = "idle"

C31_LazyResolution ==
  C31_NoOperationCalled =>
    /\ providersConstructed = 0
    /\ providerPromise.state # "fulfilled"

\* C32: a single-result structured call whose vendor text does not parse or
\* does not conform to the schema fails terminally: the text that failed was
\* the last thing asked of the vendor (every earlier attempt was a retryable
\* failure, so a first-attempt answer means exactly one attempt), exactly one
\* event of the call exists and is error-marked, and the failure is what the
\* caller receives.
C32_Conforms(text) == text \in {"{\"answer\":\"yes\"}", "{ \"answer\": \"yes\" }"}

C32_ValidationFailed ==
  /\ lastCall.kind = "llm"
  /\ lastCall.attemptLog # <<>>
  /\ Last(lastCall.attemptLog).name = "ok"
  /\ ~C32_Conforms(Last(lastCall.attemptLog).message)

C32_ValidationFailureTerminal ==
  C32_ValidationFailed =>
    /\ lastCall.outcome = "error"
    /\ lastCall.value.name # "ok"
    /\ Cardinality({i \in DOMAIN lastCall.attemptLog :
                      lastCall.attemptLog[i].name = "ok"}) = 1
    /\ \A i \in 1..(Len(lastCall.attemptLog) - 1) :
          ClaimRetryable(lastCall.attemptLog[i])
    /\ Len(lastCall.attemptLog) = Len(lastCall.sleeps) + 1
    /\ Cardinality(EventsOfCall(lastCall.n)) = 1
    /\ Last(events).payload.prompt = Prompt(lastCall.n)
    /\ Last(events).payload.response = "Error: " \o lastCall.value.message
    /\ pc = "handle" =>
         [name |-> lastCall.value.name, message |-> lastCall.value.message]
            \in ThrowableErrors

C32_Witness ==
  /\ C32_ValidationFailed
  /\ llmConfig = "google"
  /\ lastCall.attemptLog = <<VendorStructured("{\"answer\":7}")>>
  /\ Len(events) = 1
  /\ pc = "threw"
  /\ result.name = "Error"

\* C33: every logical LLM call terminates. While a call is open it has made
\* at most maxRetries + 1 attempts and slept at most maxRetries times, one
\* sleep per retry; it has no event before it is settled; a settled call is
\* never attempted again and its one event is appended by the step that
\* settles it; and, vendor requests and timers being served, an open call
\* always reaches Succeeded or Failed.
C33_Open == call.kind = "llm"

C33_Settled(n) ==
  /\ call = NoCall
  /\ lastCall.kind = "llm"
  /\ lastCall.n = n
  /\ lastCall.outcome \in {"ok", "error"}

C33_Bounded ==
  /\ C33_Open =>
       /\ call.attempt <= maxRetries
       /\ Len(call.attemptLog) <= maxRetries + 1
       /\ Len(call.sleeps) <= maxRetries
       /\ pc = "llm_inflight" =>
            (Len(call.attemptLog) = call.attempt /\ Len(call.sleeps) = call.attempt)
       /\ pc = "llm_sleep" =>
            (Len(call.attemptLog) = call.attempt + 1
               /\ Len(call.sleeps) = call.attempt + 1)
       /\ EventsOfCall(call.n) = {}
  /\ (lastCall.kind = "llm" /\ lastCall.attemptLog # <<>>) =>
       /\ Len(lastCall.attemptLog) <= maxRetries + 1
       /\ Len(lastCall.sleeps) = Len(lastCall.attemptLog) - 1
       /\ Cardinality(EventsOfCall(lastCall.n)) = 1

C33_Step ==
  /\ (C33_Open /\ C33_Open') => /\ events' = events
                               /\ lastCall' = lastCall
  /\ (C33_Open /\ ~C33_Open') =>
        /\ \E n \in {call.n} : C33_Settled(n)'
        /\ Len(events') = Len(events) + 1
        /\ SubSeq(events', 1, Len(events)) = events
        /\ Last(events').payload.prompt = Prompt(call.n)
  /\ (~C33_Open /\ lastCall.kind = "llm" /\ pc' # "llm_inflight"
        /\ lastCall'.kind = "llm") => lastCall' = lastCall

C33_CallTerminates ==
  /\ []C33_Bounded
  /\ [][C33_Step]_vars
  /\ \A n \in 1..MaxCalls : (C33_Open /\ call.n = n) ~> C33_Settled(n)

C33_Witness ==
  /\ C33_Settled(1)
  /\ lastCall.outcome = "error"
  /\ Len(lastCall.attemptLog) = maxRetries + 1
  /\ Len(lastCall.sleeps) = maxRetries
  /\ Len(events) = 1

\* C34: the effective include flag of a call is its explicit override when
\* given and the provider default otherwise. With a persona and a non-empty
\* context supplied: an explicit false leaves the block out whatever the
\* default, an explicit true puts it in whatever the default, and an omitted
\* override follows the default.
C34_Effective(override, default, present) ==
  /\ override = Def(FALSE) => ~present
  /\ override = Def(TRUE) => present
  /\ override = Undef => (present <=> default)

C34_OverridesThenDefaults ==
  (args.fn = "buildSystemInstruction" /\ ret.returned) =>
    /\ args.persona.defined =>
         C34_Effective(args.includePersona, args.defaults.includePersona,
                       HasEnvelope(ret.val, "<persona>", "</persona>"))
    /\ (args.contextText.defined /\ args.contextText.val # <<>>) =>
         C34_Effective(args.includeContext, args.defaults.includeContext,
                       HasEnvelope(ret.val, "<context>", "</context>"))

C34_Witness ==
  /\ args.fn = "buildSystemInstruction"
  /\ ret.returned
  /\ args.persona.defined
  /\ args.contextText = Def(<<"order 42">>)
  /\ args.includePersona = Def(FALSE)
  /\ args.defaults.includePersona
  /\ args.includeContext = Def(TRUE)
  /\ ~args.defaults.includeContext
  /\ ~HasEnvelope(ret.val, "<persona>", "</persona>")
  /\ HasEnvelope(ret.val, "<context>", "</context>")

\* C35: the system instruction lists the blocks that are present in the
\* order persona, instruction, context; consecutive blocks are separated by
\* one blank line (two line feeds) and nothing precedes the first or follows
\* the last block; the instruction block is present exactly when the
\* instruction is non-empty; a persona without attributes still gives a
\* persona envelope.
C35_LineFeed == "\n"

C35_Blocks ==
  (IF C17_PersonaQualifies
     THEN <<buildPersonaInstruction(args.persona.val)>> ELSE <<>>)
  \o (IF C17_InstructionQualifies
        THEN << <<"<instructions>", NL>> \o args.systemInstruction.val
                \o <<NL, "</instructions>">> >> ELSE <<>>)
  \o (IF C17_ContextQualifies
        THEN << <<"<context>", NL>> \o args.contextText.val
                \o <<NL, "</context>">> >> ELSE <<>>)

C35_BlocksInOrderBlankLine ==
  (args.fn = "buildSystemInstruction" /\ ret.returned) =>
    /\ ret.val = Join(C35_Blocks, <<C35_LineFeed, C35_LineFeed>>)
    /\ HasEnvelope(ret.val, "<instructions>", "</instructions>")
         <=> C17_InstructionQualifies
    /\ (C17_PersonaQualifies
          /\ args.persona.val = [name |-> Undef, businessContext |-> Undef,
                                 toneOfVoice |-> Undef])
         => (ret.val[1] = "<persona>" /\ ret.val[3] = "</persona>")

\* C36: the event sequence of a request is append-only. While business logic
\* runs, every step leaves the sequence as it is or extends it by one event
\* at the tail, and each write path (Context.logLLMCall, Context.logAPICall,
\* a call through the contextual LLM facade, a call through the contextual
\* HTTP facade) extends that one sequence by exactly one event; nothing is
\* removed, reordered or rewritten up to the response.
C36_Step ==
  /\ pc \in {"handle", "returned"} =>
        /\ Len(events') \in {Len(events), Len(events) + 1}
        /\ SubSeq(events', 1, Len(events)) = events
  /\ (pc = "handle" /\ completedCalls' = completedCalls + 1) =>
        Len(events') = Len(events) + 1
  /\ pc = "returned" => events' = events

C36_AppendOnly == [][C36_Step]_vars

C36_Witness ==
  /\ response.status = 200
  /\ Len(events) = 2
  /\ events[1] = logLLMCallEvent([prompt |-> "custom prompt",
                                  response |-> "custom response",
                                  model |-> "custom"])
  /\ events[2] = settledEvent("http", 2, TRUE)
  /\ "events" \in DOMAIN response.body
  /\ Len(response.body.events) = 2

\* C37: a contextual operation calls the operation of the same name of the
\* wrapped facade; what the wrapped operation receives is the caller's
\* argument list with the request's persona, context and event sequence
\* (the event sequence only, for HTTP) inserted at the wrapped operation's
\* parameters for them and nothing else changed (an omitted headers argument
\* being the empty object the wrapped operation would default to itself);
\* the caller gets the wrapped operation's result or failure, and no other
\* state changes.
C37_Without(list, from, n) ==
  SubSeq(list, 1, from - 1) \o SubSeq(list, from + n, Len(list))

C37_CallerView ==
  IF args.via = "context.llm"
    THEN args.arguments
    ELSE [i \in DOMAIN args.arguments |->
            IF i = Len(args.arguments) - 1 /\ args.arguments[i] = "undefined"
              THEN "{}" ELSE args.arguments[i]]

C37_PureForwarders ==
  (("via" \in DOMAIN args) /\ ret.returned) =>
     /\ ret.callee.method = args.fn
     /\ ret.callee.object = (IF args.via = "context.llm" THEN "baseLLM" ELSE "baseHTTP")
     /\ ret.outcome = args.outcome
     /\ IF args.via = "context.llm"
          THEN /\ Len(ret.received) = Len(args.arguments) + 3
               /\ SubSeq(ret.received, Len(ret.received) - 3, Len(ret.received) - 1)
                    = <<args.bound.persona, args.bound.context, args.bound.events>>
               /\ C37_Without(ret.received, Len(ret.received) - 3, 3) = C37_CallerView
          ELSE /\ Len(ret.received) = Len(args.arguments) + 1
               /\ ret.received[Len(ret.received) - 1] = args.bound.events
               /\ C37_Without(ret.received, Len(ret.received) - 1, 1) = C37_CallerView
     /\ providersConstructed = 0
     /\ clientsCreated = 0
     /\ events = <<>>

C37_Witness ==
  /\ "via" \in DOMAIN args
  /\ ret.returned
  /\ args.fn = "generateStructuredContent"
  /\ args.arguments = <<"messages", "schema", "Test instruction", "false",
                        "undefined", "parameters">>
  /\ ret.received = <<"messages", "schema", "Test instruction", "false", "undefined",
                      "persona", "context", "events", "parameters">>
  /\ ~ret.outcome.ok

\* C38: an attempt's failure is followed by another attempt only if it is an
\* ApiError with status 429 or >= 500, and such a failure is followed by
\* another attempt as long as the budget lasts; any other failure ends the
\* call at once (one attempt when it is the first failure) and is what the
\* caller receives and what the event reports.
C38_Log == IF call.kind = "llm" THEN call.attemptLog
           ELSE IF lastCall.kind = "llm" THEN lastCall.attemptLog ELSE <<>>

C38_RetriedOnlyIfRetryable ==
  \A i \in 1..(Len(C38_Log) - 1) : ClaimRetryable(C38_Log[i])

C38_ClassifierDecides ==
  /\ C38_RetriedOnlyIfRetryable
  /\ (pc = "llm_sleep") => ClaimRetryable(Last(call.attemptLog))
  /\ (call = NoCall /\ lastCall.kind = "llm" /\ lastCall.attemptLog # <<>>
        /\ Last(lastCall.attemptLog).name # "ok") =>
       /\ ClaimRetryable(Last(lastCall.attemptLog))
            => Len(lastCall.attemptLog) = maxRetries + 1
       /\ (~ClaimRetryable(lastCall.attemptLog[1]))
            => Len(lastCall.attemptLog) = 1
       /\ lastCall.outcome = "error"
       /\ lastCall.value = Last(lastCall.attemptLog)
       /\ Last(events).payload.response
            = "Error: " \o Last(lastCall.attemptLog).message
       /\ pc = "handle" =>
            [name |-> lastCall.value.name, message |-> lastCall.value.message]
               \in ThrowableErrors

C38_Witness ==
  /\ call = NoCall
  /\ lastCall.kind = "llm"
  /\ lastCall.attemptLog = <<ApiError(429), StatusBearingError>>
  /\ lastCall.value = StatusBearingError
  /\ pc = "threw"
  /\ result.message = "upstream 503"


\* the transport-level failures of a fetch: timeout, abort, network error
C39_TransportFailures == {"TimeoutError", "AbortError", "TypeError"}

\* C39: a settled HTTPClient call made exactly one physical fetch; a response
\* of any status is returned with its event recording that status; a thrown
\* error is a transport failure of the fetch, and its event is the last one
\* of the request's events when the error reaches the caller.
C39_OneFetchStatusReturned ==
  lastCall.kind = "http" =>
    /\ Len(lastCall.attemptLog) = 1
    /\ events # <<>>
    /\ Last(events).type = "api_call"
    /\ Last(events).payload.url = apiCallEvent(lastCall.n, Undef, 0, "").payload.url
    /\ lastCall.outcome = "ok" =>
         Last(events).payload.responseStatusCode = lastCall.value.status
    /\ lastCall.outcome = "error" =>
         /\ lastCall.value.name \in C39_TransportFailures
         /\ lastCall.value.message # SerializeError.message


\* the verdict of the authentication middleware on the current request
C40_AuthVerdict == middleware(AgentAuth, ApiKeyRequest(request.apiKey))

\* C40: a POST that fails authentication is answered with the authentication
\* error whatever its body is; business logic runs only for a request that
\* passed the authentication check and the payload validation, on a
\* constructed Context, and the response is written after it.
C40_AuthThenValidationThenLogic ==
  request # NoRequest =>
    /\ ~C40_AuthVerdict.next =>
         /\ responsesSent = 1
         /\ response = [status |-> C40_AuthVerdict.status,
                        body |-> C40_AuthVerdict.body]
    /\ handleCalls > 0 =>
         /\ C40_AuthVerdict.next
         /\ "payload" \in DOMAIN request
         /\ parseIncomingRequest(request.payload)
         /\ context.constructed
    /\ pc \in {"handle", "returned", "threw"} =>
         /\ handleCalls = 1
         /\ responsesSent = 0

====
